---- MODULE Spec2Model ----
(***************************************************************************)
(* Recipe discovery API: the Redis cache handle (app/services/cache.py),   *)
(* the cache-aside read path of MealDBService (app/services/mealdb.py)     *)
(* and the JSON payloads it stores.                                        *)
(*                                                                         *)
(* Text is a sequence of one-character strings; "CR" and "LF" stand for    *)
(* the carriage-return and line-feed characters.  Python values (and the   *)
(* JSON values json.loads produces) are records tagged by field j.         *)
(***************************************************************************)
EXTENDS Integers, Sequences, FiniteSets, TLC

\* ------------------------------------------------------------------ bounds
NumCalls == 2
MaxAdvances == 1
MaxFlips == 1
MaxOps == 3
NumWorkers == 3

\* ------------------------------------------------------- program constants
\* faulty variant: one hour instead of 24
CACHE_TTL_hour == 60 * 60
CACHE_TTL == 86400
ERROR_TTL == 300
\* faulty variant: range(1, 20) leaves the last slot out
NumSlots_short == 20 - 1
NumSlots == 20

\* ------------------------------------------------------------- text / str
Whitespace == {" ", "CR", "LF"}

\* str.lower() on one character
LowerChar(c) == IF c = "A" THEN "a" ELSE IF c = "B" THEN "b" ELSE IF c = "P" THEN "p" ELSE c

\* str.lower()
Lower(s) == [i \in 1..Len(s) |-> LowerChar(s[i])]

RECURSIVE LStrip(_)
LStrip(s) == IF s # <<>> /\ Head(s) \in Whitespace THEN LStrip(Tail(s)) ELSE s

RECURSIVE RStrip(_)
RStrip(s) ==
  IF s # <<>> /\ s[Len(s)] \in Whitespace THEN RStrip(SubSeq(s, 1, Len(s) - 1)) ELSE s

\* str.strip()
Strip(s) == RStrip(LStrip(s))

DigitChar(d) == <<"0", "1", "2", "3", "4", "5", "6", "7", "8", "9">>[d + 1]

RECURSIVE NatToStr(_)
NatToStr(n) == IF n < 10 THEN <<DigitChar(n)>> ELSE NatToStr(n \div 10) \o <<DigitChar(n % 10)>>

\* str(int), as used by the f-string of the by-id cache key
IntToStr(n) == IF n < 0 THEN <<"-">> \o NatToStr(0 - n) ELSE NatToStr(n)

\* a string literal of the source whose characters the model never inspects
StrOf(word) == <<word>>

\* ------------------------------------------------------------- cache keys
\* faulty variant: the key is built from the query as typed
SearchKey_raw(query) == <<"mealdb:search:">> \o query

\* f"mealdb:search:{query.lower().strip()}"
SearchKey(query) == <<"mealdb:search:">> \o Strip(Lower(query))

\* faulty variant: the key holds the last digit of the identifier only
MealKey_last_digit(meal_id) == <<"mealdb:meal:">> \o IntToStr(meal_id % 10)

\* f"mealdb:meal:{meal_id}"
MealKey(meal_id) == <<"mealdb:meal:">> \o IntToStr(meal_id)

\* ------------------------------------------------------- Python exceptions
\* the classes an exception is an instance of (itself and its bases)
ExcClasses(exc) ==
  CASE exc = "ConnectError"     -> {"ConnectError", "RequestError"}
    [] exc = "ReadTimeout"      -> {"ReadTimeout", "RequestError"}
    [] exc = "HTTPStatusError"  -> {"HTTPStatusError"}
    [] exc = "JSONDecodeError"  -> {"JSONDecodeError", "ValueError"}
    [] exc = "ValidationError"  -> {"ValidationError", "ValueError"}
    [] exc = "ConnectionError"  -> {"ConnectionError", "RedisError"}
    [] exc = "TimeoutError"     -> {"TimeoutError", "RedisError"}
    [] OTHER                    -> {exc}

\* an `except (classes)` clause catches exc
Catches(classes, exc) == ExcClasses(exc) \cap classes # {}

Ok(v) == [ok |-> TRUE, val |-> v, exc |-> "none"]
Raise(e) == [ok |-> FALSE, val |-> [j |-> "null"], exc |-> e]

\* ---------------------------------------------------------- Python values
PyNone == [j |-> "null"]
PyInt(n) == [j |-> "int", n |-> n]
PyStr(s) == [j |-> "str", s |-> s]
PyList(items) == [j |-> "list", items |-> items]
PyDict(f) == [j |-> "dict", f |-> f]

\* truth value of a Python object (`if x:` / `not x`)
Truthy(v) ==
  CASE v.j = "null" -> FALSE
    [] v.j = "int"  -> v.n # 0
    [] v.j = "str"  -> v.s # <<>>
    [] v.j = "list" -> v.items # <<>>
    [] v.j = "dict" -> DOMAIN v.f # {}
    [] OTHER        -> TRUE

\* dict.get(key) and dict.get(key, default)
DictGet(d, key) == IF key \in DOMAIN d.f THEN d.f[key] ELSE PyNone
DictGetDefault(d, key, default) == IF key \in DOMAIN d.f THEN d.f[key] ELSE default

\* --------------------------------------------------------------- JSON text
\* A string held by the cache or sent by the catalog: a JSON document that
\* encodes val, a non-empty string that is not JSON, or the empty string.
JsonText(v) == [fmt |-> "json", val |-> v]
RawText == [fmt |-> "raw", val |-> PyNone]
EmptyText == [fmt |-> "empty", val |-> PyNone]

\* json.dumps(v)
json_dumps(v) == JsonText(v)

\* json.loads(text)
json_loads(text) == IF text.fmt = "json" THEN Ok(text.val) ELSE Raise("JSONDecodeError")

\* --------------------------------------------------------- Recipe (pydantic)
IsDigits(s) == s # <<>> /\ \A i \in 1..Len(s) : s[i] \in {"0", "1", "2", "3", "4", "5", "6", "7", "8", "9"}

DigitVal(c) == CHOOSE d \in 0..9 : DigitChar(d) = c

RECURSIVE StrToNat(_)
StrToNat(s) == IF s = <<>> THEN 0 ELSE 10 * StrToNat(SubSeq(s, 1, Len(s) - 1)) + DigitVal(s[Len(s)])

IsStrList(v) == v.j = "list" /\ \A i \in 1..Len(v.items) : v.items[i].j = "str"

StrRequired == {"title", "prepTime", "cookTime", "difficulty", "cuisine"}
ListRequired == {"ingredients", "steps"}

\* validation of the id field: Optional[int], numeric strings are coerced
ValidId(v) == v.j \in {"null", "int"} \/ (v.j = "str" /\ IsDigits(Strip(v.s)))
CoerceId(v) == IF v.j = "str" THEN PyInt(StrToNat(Strip(v.s))) ELSE v

\* Recipe(**kwargs): kwargs must be a mapping; pydantic validates the fields
Recipe(kwargs) ==
  IF kwargs.j # "dict" THEN Raise("TypeError")
  ELSE LET d == kwargs
           good == /\ \A k \in StrRequired : k \in DOMAIN d.f /\ d.f[k].j = "str"
                   /\ \A k \in ListRequired : k \in DOMAIN d.f /\ IsStrList(d.f[k])
                   /\ ValidId(DictGet(d, "id"))
                   /\ DictGetDefault(d, "source", PyStr(StrOf("internal"))).j = "str"
       IN IF ~good THEN Raise("ValidationError")
          ELSE Ok([j |-> "Recipe",
                   id |-> CoerceId(DictGet(d, "id")),
                   title |-> d.f["title"].s,
                   ingredients |-> [i \in 1..Len(d.f["ingredients"].items) |-> d.f["ingredients"].items[i].s],
                   steps |-> [i \in 1..Len(d.f["steps"].items) |-> d.f["steps"].items[i].s],
                   prepTime |-> d.f["prepTime"].s,
                   cookTime |-> d.f["cookTime"].s,
                   difficulty |-> d.f["difficulty"].s,
                   cuisine |-> d.f["cuisine"].s,
                   source |-> DictGetDefault(d, "source", PyStr(StrOf("internal"))).s])

\* faulty variant: the dump leaves the provenance out
model_dump_without_source(r) ==
  PyDict([id |-> r.id,
          title |-> PyStr(r.title),
          ingredients |-> PyList([i \in 1..Len(r.ingredients) |-> PyStr(r.ingredients[i])]),
          steps |-> PyList([i \in 1..Len(r.steps) |-> PyStr(r.steps[i])]),
          prepTime |-> PyStr(r.prepTime),
          cookTime |-> PyStr(r.cookTime),
          difficulty |-> PyStr(r.difficulty),
          cuisine |-> PyStr(r.cuisine)])

\* recipe.model_dump()
model_dump(r) ==
  PyDict([id |-> r.id,
          title |-> PyStr(r.title),
          ingredients |-> PyList([i \in 1..Len(r.ingredients) |-> PyStr(r.ingredients[i])]),
          steps |-> PyList([i \in 1..Len(r.steps) |-> PyStr(r.steps[i])]),
          prepTime |-> PyStr(r.prepTime),
          cookTime |-> PyStr(r.cookTime),
          difficulty |-> PyStr(r.difficulty),
          cuisine |-> PyStr(r.cuisine),
          source |-> PyStr(r.source)])


\* ----------------------------------------------- _transform_meal_to_recipe
\* f"strIngredient{i}" and f"strMeasure{i}"
IngredientKey(i) ==
  <<"strIngredient1", "strIngredient2", "strIngredient3", "strIngredient4", "strIngredient5", "strIngredient6", "strIngredient7", "strIngredient8", "strIngredient9", "strIngredient10", "strIngredient11", "strIngredient12", "strIngredient13", "strIngredient14", "strIngredient15", "strIngredient16", "strIngredient17", "strIngredient18", "strIngredient19", "strIngredient20">>[i]
MeasureKey(i) ==
  <<"strMeasure1", "strMeasure2", "strMeasure3", "strMeasure4", "strMeasure5", "strMeasure6", "strMeasure7", "strMeasure8", "strMeasure9", "strMeasure10", "strMeasure11", "strMeasure12", "strMeasure13", "strMeasure14", "strMeasure15", "strMeasure16", "strMeasure17", "strMeasure18", "strMeasure19", "strMeasure20">>[i]

\* index of the first "\r\n" in s, 0 when there is none
FirstCRLF(s) ==
  IF \E i \in 1..(Len(s) - 1) : s[i] = "CR" /\ s[i + 1] = "LF"
  THEN CHOOSE i \in 1..(Len(s) - 1) :
         /\ s[i] = "CR" /\ s[i + 1] = "LF"
         /\ \A k \in 1..(i - 1) : ~(s[k] = "CR" /\ s[k + 1] = "LF")
  ELSE 0

\* instructions.split("\r\n")
RECURSIVE SplitCRLF(_)
SplitCRLF(s) ==
  LET i == FirstCRLF(s)
  IN IF i = 0 THEN <<s>>
     ELSE <<SubSeq(s, 1, i - 1)>> \o SplitCRLF(SubSeq(s, i + 2, Len(s)))

RECURSIVE NonBlankStripped(_)
NonBlankStripped(parts) ==
  IF parts = <<>> THEN <<>>
  ELSE IF Strip(Head(parts)) # <<>>
       THEN <<Strip(Head(parts))>> \o NonBlankStripped(Tail(parts))
       ELSE NonBlankStripped(Tail(parts))

\* a value supports .strip() / .split(): only str does
IsStr(v) == v.j = "str"

\* the ingredient lines of slots i..NumSlots, or "AttributeError" when a
\* truthy slot value is not a string
RECURSIVE IngredientLines(_, _)
IngredientLines(meal, i) ==
  IF i > NumSlots THEN Ok(<<>>)
  ELSE LET ingredient == DictGet(meal, IngredientKey(i))
           measure == DictGet(meal, MeasureKey(i))
           rest == IngredientLines(meal, i + 1)
       IN IF ~Truthy(ingredient) THEN rest
          ELSE IF ~IsStr(ingredient) THEN Raise("AttributeError")
          ELSE IF Strip(ingredient.s) = <<>> THEN rest
          ELSE IF ~Truthy(measure)
               THEN (IF rest.ok THEN Ok(<<Strip(ingredient.s)>> \o rest.val) ELSE rest)
          ELSE IF ~IsStr(measure) THEN Raise("AttributeError")
          ELSE IF Strip(measure.s) # <<>>
               THEN (IF rest.ok
                     THEN Ok(<<Strip(measure.s) \o <<" ">> \o Strip(ingredient.s)>> \o rest.val)
                     ELSE rest)
               ELSE (IF rest.ok THEN Ok(<<Strip(ingredient.s)>> \o rest.val) ELSE rest)

\* faulty variant: no fallback when every line is blank
Steps_no_fallback(instructions) == NonBlankStripped(SplitCRLF(instructions))

\* the step list built from the instructions text
Steps(instructions) ==
  LET steps == NonBlankStripped(SplitCRLF(instructions))
  IN IF steps # <<>> THEN steps
     ELSE IF instructions # <<>> THEN <<instructions>>
     ELSE <<StrOf("No instructions available")>>

transform_meal_to_recipe(meal) ==
  IF meal.j # "dict" THEN Raise("AttributeError")
  ELSE LET ingredients == IngredientLines(meal, 1)
           instructions == DictGetDefault(meal, "strInstructions", PyStr(<<>>))
       IN IF ~ingredients.ok THEN ingredients
          ELSE IF ~IsStr(instructions) THEN Raise("AttributeError")
          ELSE Recipe(PyDict(
                 [id |-> DictGet(meal, "idMeal"),
                  title |-> DictGetDefault(meal, "strMeal", PyStr(StrOf("Unknown Recipe"))),
                  ingredients |-> PyList([k \in 1..Len(ingredients.val) |-> PyStr(ingredients.val[k])]),
                  steps |-> PyList([k \in 1..Len(Steps(instructions.s)) |-> PyStr(Steps(instructions.s)[k])]),
                  prepTime |-> PyStr(StrOf("Unknown")),
                  cookTime |-> PyStr(StrOf("Unknown")),
                  difficulty |-> PyStr(StrOf("Unknown")),
                  cuisine |-> DictGetDefault(meal, "strArea", PyStr(StrOf("Unknown"))),
                  source |-> PyStr(StrOf("mealdb"))]))

\* ------------------------------------------------------------- RedisCache
\* A stored entry: the payload and the time at which Redis drops it.
NoEntry == [present |-> FALSE, text |-> EmptyText, expiry |-> 0]
Entry(text, expiry) == [present |-> TRUE, text |-> text, expiry |-> expiry]

\* what the Redis server answers to GET at time t
Live(entry, t) == entry.present /\ t < entry.expiry

RedisErrors == {"ConnectionError", "TimeoutError"}

\* faulty variant: only redis.ConnectionError is handled
get_client_timeout_escapes(cl, up, exc) ==
  IF cl = "None"
  THEN IF up THEN [client |-> "Redis", exc |-> "none"]
       ELSE IF Catches({"ConnectionError"}, exc)
            THEN [client |-> "None", exc |-> "none"]
            ELSE [client |-> "Redis", exc |-> exc]
  ELSE [client |-> cl, exc |-> "none"]

\* RedisCache._get_client: cl is self._client ("None" or "Redis"); up tells
\* whether the server answers; exc is the error the library raises when not
get_client(cl, up, exc) ==
  IF cl = "None"
  THEN IF up THEN [client |-> "Redis", exc |-> "none"]
       ELSE IF Catches({"ConnectionError", "TimeoutError"}, exc)
            THEN [client |-> "None", exc |-> "none"]
            ELSE [client |-> "Redis", exc |-> exc]
  ELSE [client |-> cl, exc |-> "none"]

\* RedisCache.get: the value returned (some = FALSE is None), the exception
\* that escapes ("none" when it returns) and the new self._client
RedisCache_get(cl, up, exc, st, t, key) ==
  LET gc == get_client(cl, up, exc)
      absent == [client |-> gc.client, exc |-> "none", some |-> FALSE, text |-> EmptyText]
  IN IF gc.exc # "none" THEN [absent EXCEPT !.exc = gc.exc]
     ELSE IF gc.client = "None" THEN absent
     ELSE IF up
          THEN IF Live(st[key], t)
               THEN [absent EXCEPT !.some = TRUE, !.text = st[key].text]
               ELSE absent
          ELSE IF Catches({"ConnectionError", "TimeoutError"}, exc)
               THEN absent
               ELSE [absent EXCEPT !.exc = exc]

\* faulty variant: setex is not guarded against redis.TimeoutError
RedisCache_set_timeout_escapes(cl, up, exc, st, t, key, value, ttl_seconds) ==
  LET gc == get_client(cl, up, exc)
      failed == [client |-> gc.client, exc |-> "none", ok |-> FALSE, store |-> st]
  IN IF gc.exc # "none" THEN [failed EXCEPT !.exc = gc.exc]
     ELSE IF gc.client = "None" THEN failed
     ELSE IF up
          THEN [failed EXCEPT !.ok = TRUE,
                              !.store = [st EXCEPT ![key] = Entry(value, t + ttl_seconds)]]
          ELSE IF Catches({"ConnectionError"}, exc)
               THEN failed
               ELSE [failed EXCEPT !.exc = exc]

\* faulty variant: SET NX, a live entry is not overwritten
RedisCache_set_if_absent(cl, up, exc, st, t, key, value, ttl_seconds) ==
  LET gc == get_client(cl, up, exc)
      failed == [client |-> gc.client, exc |-> "none", ok |-> FALSE, store |-> st]
  IN IF gc.exc # "none" THEN [failed EXCEPT !.exc = gc.exc]
     ELSE IF gc.client = "None" THEN failed
     ELSE IF up
          THEN [failed EXCEPT !.ok = TRUE,
                              !.store = IF Live(st[key], t) THEN st
                                        ELSE [st EXCEPT ![key] = Entry(value, t + ttl_seconds)]]
          ELSE IF Catches({"ConnectionError", "TimeoutError"}, exc)
               THEN failed
               ELSE [failed EXCEPT !.exc = exc]

\* faulty variant: the value is stored under every key
RedisCache_set_every_key(cl, up, exc, st, t, key, value, ttl_seconds) ==
  LET gc == get_client(cl, up, exc)
      failed == [client |-> gc.client, exc |-> "none", ok |-> FALSE, store |-> st]
  IN IF gc.exc # "none" THEN [failed EXCEPT !.exc = gc.exc]
     ELSE IF gc.client = "None" THEN failed
     ELSE IF up
          THEN [failed EXCEPT !.ok = TRUE,
                              !.store = [k \in DOMAIN st |-> Entry(value, t + ttl_seconds)]]
          ELSE IF Catches({"ConnectionError", "TimeoutError"}, exc)
               THEN failed
               ELSE [failed EXCEPT !.exc = exc]

\* RedisCache.set: the flag returned, the escaping exception, the new
\* self._client and the new contents of the server
RedisCache_set(cl, up, exc, st, t, key, value, ttl_seconds) ==
  LET gc == get_client(cl, up, exc)
      failed == [client |-> gc.client, exc |-> "none", ok |-> FALSE, store |-> st]
  IN IF gc.exc # "none" THEN [failed EXCEPT !.exc = gc.exc]
     ELSE IF gc.client = "None" THEN failed
     ELSE IF up
          THEN [failed EXCEPT !.ok = TRUE,
                              !.store = [st EXCEPT ![key] = Entry(value, t + ttl_seconds)]]
          ELSE IF Catches({"ConnectionError", "TimeoutError"}, exc)
               THEN failed
               ELSE [failed EXCEPT !.exc = exc]

\* ---------------------------------------------------------- MealDBService
EmptyList == [j |-> "list", items |-> <<>>]
CacheInfo(hit, source) == [hit |-> hit, source |-> source]
NoInfo == [hit |-> FALSE, source |-> "none"]

\* outcome of one stage of a call: how it went on, the exception that
\* escapes to the caller, the value returned and the CacheInfo
Outcome(path, exc, val, info) == [path |-> path, exc |-> exc, val |-> val, info |-> info]

\* Recipe(**item) for every item in order; the first exception wins
RECURSIVE Recipes(_)
Recipes(items) ==
  IF items = <<>> THEN Ok(<<>>)
  ELSE LET r == Recipe(Head(items))
       IN IF ~r.ok THEN r
          ELSE LET rest == Recipes(Tail(items))
               IN IF rest.ok THEN Ok(<<r.val>> \o rest.val) ELSE rest

\* the items a `for x in v` loop visits, or TypeError
Iterate(v) ==
  CASE v.j = "list" -> Ok(v.items)
    [] v.j = "dict" /\ DOMAIN v.f = {} -> Ok(<<>>)
    [] v.j = "dict" /\ DOMAIN v.f # {} -> Ok(<<PyStr(StrOf("key"))>>)
    [] v.j = "str" /\ v.s = <<>> -> Ok(<<>>)
    [] v.j = "str" /\ v.s # <<>> -> Ok(<<PyStr(<<Head(v.s)>>)>>)
    [] OTHER -> Raise("TypeError")

DeserHandler == {"JSONDecodeError", "TypeError"}

\* faulty variant: the empty query is looked up like any other
search_short_circuit_never(query) == FALSE

\* search_meals, `if not query:`
search_short_circuit(query) == ~Truthy(PyStr(query))

\* faulty variant: the cached payload is never used
search_cached_ignored(cached) == Outcome("miss", "none", EmptyList, NoInfo)

\* search_meals, the `if cached_result:` block: "hit" returns, "miss" goes
\* on to the API, "raise" lets exc escape
search_cached(cached) ==
  IF ~cached.some \/ cached.text.fmt = "empty"
  THEN Outcome("miss", "none", EmptyList, NoInfo)
  ELSE LET cached_data == json_loads(cached.text)
           items == IF cached_data.ok THEN Iterate(cached_data.val) ELSE cached_data
           recipes == IF items.ok THEN Recipes(items.val) ELSE items
       IN IF recipes.ok
          THEN Outcome("hit", "none", PyList(recipes.val), CacheInfo(TRUE, "cache"))
          ELSE IF Catches(DeserHandler, recipes.exc)
               THEN Outcome("miss", "none", EmptyList, NoInfo)
               ELSE Outcome("raise", recipes.exc, EmptyList, NoInfo)

\* faulty variant: a cached "not found" marker is not returned but fetched again
meal_cached_refetch_null(cached) ==
  IF ~cached.some \/ cached.text.fmt = "empty"
  THEN Outcome("miss", "none", PyNone, NoInfo)
  ELSE LET cached_data == json_loads(cached.text)
           recipe == IF ~cached_data.ok THEN cached_data
                     ELSE IF Truthy(cached_data.val) THEN Recipe(cached_data.val)
                     ELSE Raise("TypeError")
       IN IF recipe.ok
          THEN Outcome("hit", "none", recipe.val, CacheInfo(TRUE, "cache"))
          ELSE IF Catches(DeserHandler, recipe.exc)
               THEN Outcome("miss", "none", PyNone, NoInfo)
               ELSE Outcome("raise", recipe.exc, PyNone, NoInfo)

\* faulty variant: the cached payload is never used
meal_cached_ignored(cached) == Outcome("miss", "none", PyNone, NoInfo)

\* get_meal_by_id, the `if cached_result:` block
meal_cached(cached) ==
  IF ~cached.some \/ cached.text.fmt = "empty"
  THEN Outcome("miss", "none", PyNone, NoInfo)
  ELSE LET cached_data == json_loads(cached.text)
           recipe == IF ~cached_data.ok THEN cached_data
                     ELSE IF Truthy(cached_data.val) THEN Recipe(cached_data.val)
                     ELSE Ok(PyNone)
       IN IF recipe.ok
          THEN Outcome("hit", "none", recipe.val, CacheInfo(TRUE, "cache"))
          ELSE IF Catches(DeserHandler, recipe.exc)
               THEN Outcome("miss", "none", PyNone, NoInfo)
               ELSE Outcome("raise", recipe.exc, PyNone, NoInfo)

\* faulty variant: httpx.RequestError is not among the handled faults
ApiHandler_status_only == {"HTTPStatusError", "KeyError"}

\* faulty variant: timeouts are not among the handled faults
ApiHandler_no_timeout == {"ConnectError", "HTTPStatusError", "KeyError"}

\* the `except (httpx.RequestError, httpx.HTTPStatusError, KeyError)` clause
ApiHandler == {"RequestError", "HTTPStatusError", "KeyError"}

NoSet == [do |-> FALSE, text |-> EmptyText, ttl |-> 0, guarded |-> FALSE]
DoSet(text, ttl, guarded) == [do |-> TRUE, text |-> text, ttl |-> ttl, guarded |-> guarded]

\* what the code after the cache lookup decides from the HTTP response: the
\* path taken, the value and CacheInfo to return and the cache write to issue
Plan(path, exc, val, info, write) ==
  [path |-> path, exc |-> exc, val |-> val, info |-> info, write |-> write]

\* the cache.set each path issues
search_negative_write == DoSet(json_dumps(EmptyList), CACHE_TTL, FALSE)
search_success_write(recipes) ==
  DoSet(json_dumps(PyList([i \in 1..Len(recipes) |-> model_dump(recipes[i])])), CACHE_TTL, TRUE)
search_failure_write == NoSet

\* faulty variant: a lookup without a match is not cached
meal_negative_write_none == NoSet

meal_negative_write == DoSet(json_dumps(PyNone), CACHE_TTL, FALSE)
meal_success_write(recipe) == DoSet(json_dumps(model_dump(recipe)), CACHE_TTL, TRUE)
meal_failure_write == DoSet(json_dumps(PyNone), ERROR_TTL, FALSE)

\* transform every meal in order; the first exception wins
RECURSIVE TransformAll(_)
TransformAll(meals) ==
  IF meals = <<>> THEN Ok(<<>>)
  ELSE LET r == transform_meal_to_recipe(Head(meals))
       IN IF ~r.ok THEN r
          ELSE LET rest == TransformAll(Tail(meals))
               IN IF rest.ok THEN Ok(<<r.val>> \o rest.val) ELSE rest

\* response.raise_for_status(); data = response.json()
ResponseData(response) ==
  IF response.kind = "exc" THEN Raise(response.exc)
  ELSE LET data == json_loads(response.body)
       IN IF ~data.ok THEN data
          ELSE IF data.val.j # "dict" THEN Raise("AttributeError")
          ELSE data

\* search_meals, the block under "Cache miss - fetch from MealDB API"
search_fetch(response) ==
  LET data == ResponseData(response)
      meals == IF data.ok THEN Ok(DictGet(data.val, "meals")) ELSE data
      items == IF meals.ok /\ Truthy(meals.val) THEN Iterate(meals.val) ELSE meals
      recipes == IF items.ok /\ Truthy(meals.val) THEN TransformAll(items.val) ELSE items
      api == CacheInfo(FALSE, "api")
  IN IF ~recipes.ok
     THEN IF Catches(ApiHandler, recipes.exc)
          THEN Plan("failure", "none", EmptyList, api, search_failure_write)
          ELSE Plan("raise", recipes.exc, EmptyList, NoInfo, NoSet)
     ELSE IF ~Truthy(meals.val)
          THEN Plan("negative", "none", EmptyList, api, search_negative_write)
          ELSE Plan("success", "none", PyList(recipes.val), api, search_success_write(recipes.val))

\* data["meals"][0]
FirstMeal(meals) ==
  CASE meals.j = "list" -> Ok(meals.items[1])
    [] meals.j = "str"  -> Ok(PyStr(<<Head(meals.s)>>))
    [] meals.j = "dict" -> Raise("KeyError")
    [] OTHER            -> Raise("TypeError")

\* get_meal_by_id, the block under "Cache miss - fetch from MealDB API"
meal_fetch(response) ==
  LET data == ResponseData(response)
      meals == IF data.ok THEN Ok(DictGet(data.val, "meals")) ELSE data
      meal == IF meals.ok /\ Truthy(meals.val) THEN FirstMeal(meals.val) ELSE meals
      recipe == IF meal.ok /\ Truthy(meals.val) THEN transform_meal_to_recipe(meal.val) ELSE meal
      api == CacheInfo(FALSE, "api")
  IN IF ~recipe.ok
     THEN IF Catches(ApiHandler, recipe.exc)
          THEN Plan("failure", "none", PyNone, api, meal_failure_write)
          ELSE Plan("raise", recipe.exc, PyNone, NoInfo, NoSet)
     ELSE IF ~Truthy(meals.val)
          THEN Plan("negative", "none", PyNone, api, meal_negative_write)
          ELSE Plan("success", "none", recipe.val, api, meal_success_write(recipe.val))

\* ------------------------------------------------------------ environment
\* two meals of the catalog, in its wire format
Meal1 ==
  PyDict([idMeal |-> PyStr(<<"1">>),
          strMeal |-> PyStr(<<"P", "i", "e">>),
          strInstructions |-> PyStr(<<"mix", "CR", "LF", " ", "CR", "LF", "bake", " ">>),
          strArea |-> PyStr(StrOf("British")),
          strIngredient1 |-> PyStr(<<"flour", " ">>), strMeasure1 |-> PyStr(<<"1", " ", "cup">>),
          strIngredient2 |-> PyStr(<<"egg">>), strMeasure2 |-> PyStr(<<" ">>),
          strIngredient3 |-> PyStr(<<" ">>), strMeasure3 |-> PyStr(<<"2">>),
          strIngredient4 |-> PyStr(<<>>), strMeasure4 |-> PyNone])
Meal2 ==
  PyDict([idMeal |-> PyStr(<<"1", "2">>),
          strMeal |-> PyStr(<<"T", "a", "r", "t">>),
          strInstructions |-> PyStr(<<>>),
          strArea |-> PyStr(StrOf("French")),
          strIngredient1 |-> PyStr(<<"jam">>), strMeasure1 |-> PyNone])

\* a meal whose title, instructions and area are null, its slots missing
MealNulls ==
  PyDict([idMeal |-> PyStr(<<"3">>),
          strMeal |-> PyNone,
          strInstructions |-> PyNone,
          strArea |-> PyNone])

Recipe1 == transform_meal_to_recipe(Meal1).val

Queries == {<<>>, <<"a">>, <<" ", "A">>}
MealIds == {12}
\* arguments with different keys: queries with different normal forms, one
\* of them the digits of a meal identifier, and two identifiers that share
\* their last digit
KeyQueries == {<<"a">>, <<" ", "A">>, <<"b">>, <<"1", "2">>}
KeyMealIds == {12, 2}
Keys ==
  {SearchKey(q) : q \in Queries \cup KeyQueries} \cup {MealKey(i) : i \in MealIds \cup KeyMealIds}

HttpErrors == {"ConnectError", "ReadTimeout", "HTTPStatusError"}
HttpFailure(e) == [kind |-> "exc", exc |-> e, body |-> EmptyText]
HttpBody(text) == [kind |-> "body", exc |-> "none", body |-> text]
MealsBody(meals) == HttpBody(JsonText(PyDict([meals |-> meals])))
NoResponse == [kind |-> "none", exc |-> "none", body |-> EmptyText]

\* what the catalog may answer to search.php and to lookup.php
SearchResponses ==
  {HttpFailure(e) : e \in HttpErrors}
    \cup {MealsBody(PyNone), MealsBody(PyList(<<Meal2, Meal1>>)), HttpBody(RawText),
          MealsBody(PyList(<<MealNulls>>))}
LookupResponses ==
  {HttpFailure(e) : e \in HttpErrors}
    \cup {MealsBody(PyNone), MealsBody(PyList(<<Meal2>>)), HttpBody(RawText),
          MealsBody(PyList(<<MealNulls>>))}

\* payloads an earlier process may have left in the cache under a search key
\* and under a by-id key: not JSON, JSON of another shape, a list element or
\* an object without the fields of a Record, and a well-formed payload
PartialRecord == PyDict([title |-> PyStr(<<"P", "i", "e">>)])
SearchSeeds ==
  {RawText, JsonText(PyNone), JsonText(PyList(<<PartialRecord>>)),
   JsonText(PyList(<<model_dump(Recipe1)>>))}
MealSeeds ==
  {RawText, JsonText(PyList(<<model_dump(Recipe1)>>)), JsonText(PartialRecord),
   JsonText(model_dump(Recipe1))}
Seeds ==
  {[key |-> SearchKey(q), text |-> t] : q \in Queries \ {<<>>}, t \in SearchSeeds}
    \cup {[key |-> MealKey(i), text |-> t] : i \in MealIds, t \in MealSeeds}

\* ------------------------------------------------------------------ state
VARIABLES
  client,    \* RedisCache._client of the shared handle: "None" or "Redis"
  redisUp,   \* whether the Redis server answers
  store,     \* the entries the Redis server holds, by key
  now,       \* wall-clock time in seconds
  advances,  \* how often the clock has been advanced
  flips,     \* how often the Redis server has gone away or come back
  seq,       \* number of call stages executed so far
  calls      \* the read-through calls, by index: the position of each in its
             \* code, its arguments and result, and a record of what it saw and
             \* did (held: the live entry under its key when it asked the cache;
             \* cached: what cache.get returned; write: the cache.set it issued;
             \* conn: what _get_client did for its cache.get, "connected" or
             \* "failed" when it tried to connect, "reused" when it did not)
VARIABLES
  meal,      \* the meal handed to _transform_meal_to_recipe on its own
  recipe     \* what that application returned or raised
VARIABLES
  request    \* the GET /recipes/search request: its position in
             \* search_recipes, its query, the result of the repository leg
             \* and the response
VARIABLES
  repo,      \* the repository singleton: its class, the records it holds in
             \* storage order, and its identifier counter (_next_id of the
             \* in-memory class, sqlite_sequence.seq of the SQLite class)
  history    \* the repository operations the endpoints have run, in order:
             \* arguments, what the repository returned, the status of the
             \* response and the records held before the operation
VARIABLES
  workers    \* the threads of the pool that run POST /recipes against the
             \* in-memory repository: the position of each in create, the
             \* Recipe it has built and the value of _next_id it has loaded
VARIABLES
  answered   \* the GET /recipes/search requests answered before the one in
             \* `request`, in order, each as `request` was at its answer
VARIABLES
  twin       \* a SQLiteRecipeRepository driven by the same calls as `repo`

vars ==
  <<client, redisUp, store, now, advances, flips, seq, calls, meal, recipe, request,
    repo, history, workers, answered, twin>>

Calls == 1..NumCalls
Workers == 1..NumWorkers

\* a thread of the pool that has not been handed a request
IdleWorker == [pc |-> "idle", new_recipe |-> PyNone, next_id |-> 0]

NoWrite ==
  [do |-> FALSE, key |-> <<>>, text |-> EmptyText, ttl |-> 0, ok |-> FALSE,
   avail |-> FALSE, at |-> 0, kept |-> TRUE]
NoCached == [some |-> FALSE, text |-> EmptyText]

\* ------------------------------------------------------------- repository
\* a row of the recipes table as the repository returns it
Row(id, title) ==
  [j |-> "Recipe", id |-> PyInt(id), title |-> title,
   ingredients |-> <<StrOf("flour")>>, steps |-> <<StrOf("bake")>>,
   prepTime |-> StrOf("15 minutes"), cookTime |-> StrOf("10 minutes"),
   difficulty |-> StrOf("easy"), cuisine |-> StrOf("American"),
   source |-> StrOf("internal")]

\* the recipes table in the order of its primary key
SampleData ==
  <<Row(1, <<"A", "b">>), Row(2, <<"P", "i", "e">>), Row(3, <<"B", " ", "a">>),
    Row(4, <<"P", "b">>)>>

\* SQLite's `text LIKE pattern`: % matches any run of characters, _ any one
\* character, letters match without regard to case
RECURSIVE Like(_, _)
Like(pattern, text) ==
  IF pattern = <<>> THEN text = <<>>
  ELSE IF Head(pattern) = "%"
       THEN Like(Tail(pattern), text) \/ (text # <<>> /\ Like(pattern, Tail(text)))
       ELSE /\ text # <<>>
            /\ Head(pattern) = "_" \/ LowerChar(Head(pattern)) = LowerChar(Head(text))
            /\ Like(Tail(pattern), Tail(text))

RECURSIVE SelectLike(_, _)
SelectLike(rows, pattern) ==
  IF rows = <<>> THEN <<>>
  ELSE IF Like(pattern, Head(rows).title)
       THEN <<Head(rows)>> \o SelectLike(Tail(rows), pattern)
       ELSE SelectLike(Tail(rows), pattern)

\* SQLiteRecipeRepository.search_by_title
search_by_title(rows, query) ==
  IF query = <<>> THEN <<>>
  ELSE SelectLike(rows, <<"%">> \o query \o <<"%">>)

\* RecipeRequest validation of a JSON body: the seven fields are required,
\* keys the model does not declare are ignored; model_dump() of the result
RequestFields ==
  {"title", "ingredients", "steps", "prepTime", "cookTime", "difficulty", "cuisine"}

\* faulty variant: keys the model does not declare are kept
RecipeRequest_keeps_extra(body) ==
  IF body.j # "dict" THEN Raise("ValidationError")
  ELSE IF ~(/\ \A k \in StrRequired : k \in DOMAIN body.f /\ body.f[k].j = "str"
            /\ \A k \in ListRequired : k \in DOMAIN body.f /\ IsStrList(body.f[k]))
       THEN Raise("ValidationError")
       ELSE Ok(body)

RecipeRequest(body) ==
  IF body.j # "dict" THEN Raise("ValidationError")
  ELSE IF ~(/\ \A k \in StrRequired : k \in DOMAIN body.f /\ body.f[k].j = "str"
            /\ \A k \in ListRequired : k \in DOMAIN body.f /\ IsStrList(body.f[k]))
       THEN Raise("ValidationError")
       ELSE Ok(PyDict([k \in RequestFields |-> body.f[k]]))

\* the keyword arguments **recipe_request.model_dump(), id=recipe_id
WithId(recipe_request, recipe_id) ==
  PyDict([k \in DOMAIN recipe_request.f \cup {"id"} |->
            IF k = "id" THEN PyInt(recipe_id) ELSE recipe_request.f[k]])

\* index of the first record with the identifier, 0 when there is none
FirstWithId(rows, recipe_id) ==
  IF \E i \in 1..Len(rows) : rows[i].id = PyInt(recipe_id)
  THEN CHOOSE i \in 1..Len(rows) :
         /\ rows[i].id = PyInt(recipe_id)
         /\ \A k \in 1..(i - 1) : rows[k].id # PyInt(recipe_id)
  ELSE 0

\* Python's `sub in text` for strings
RECURSIVE StrIn(_, _)
StrIn(sub, text) ==
  IF Len(sub) <= Len(text) /\ SubSeq(text, 1, Len(sub)) = sub THEN TRUE
  ELSE IF text = <<>> THEN FALSE
  ELSE StrIn(sub, Tail(text))

\* outcome of a repository method: the repository afterwards, the record it
\* returns (PyNone for None) and the list it returns
Did(r, ret, list) == [repo |-> r, ret |-> ret, list |-> list]

\* InMemoryRecipeRepository(): the sample data and _next_id = 5
InMemoryRecipeRepository == [impl |-> "memory", rows |-> SampleData, next_id |-> 5]

memory_get_all(r) ==
  LET HasId(rec) == rec.id # PyNone
  IN Did(r, PyNone, SelectSeq(r.rows, HasId))

memory_get_by_id(r, recipe_id) ==
  LET i == FirstWithId(r.rows, recipe_id)
  IN Did(r, IF i = 0 THEN PyNone ELSE r.rows[i], <<>>)

\* faulty variant: the query and the titles are compared as they are
memory_search_by_title_case_sensitive(r, query) ==
  LET Matches(rec) == rec.id # PyNone /\ StrIn(query, rec.title)
  IN IF ~Truthy(PyStr(query)) THEN Did(r, PyNone, <<>>)
     ELSE Did(r, PyNone, SelectSeq(r.rows, Matches))

memory_search_by_title(r, query) ==
  LET query_lower == Lower(query)
      Matches(rec) == rec.id # PyNone /\ StrIn(query_lower, Lower(rec.title))
  IN IF ~Truthy(PyStr(query)) THEN Did(r, PyNone, <<>>)
     ELSE Did(r, PyNone, SelectSeq(r.rows, Matches))

\* faulty variant: the counter is not advanced
memory_create_same_id(r, recipe_request) ==
  LET new_recipe == Recipe(WithId(recipe_request, r.next_id)).val
  IN Did([r EXCEPT !.rows = Append(@, new_recipe)], new_recipe, <<>>)

memory_create(r, recipe_request) ==
  LET new_recipe == Recipe(WithId(recipe_request, r.next_id)).val
  IN Did([r EXCEPT !.rows = Append(@, new_recipe), !.next_id = @ + 1], new_recipe, <<>>)

\* faulty variant: an unknown identifier adds the record
memory_update_upsert(r, recipe_id, recipe_request) ==
  LET i == FirstWithId(r.rows, recipe_id)
      updated_recipe == Recipe(WithId(recipe_request, recipe_id)).val
  IN IF i = 0 THEN Did([r EXCEPT !.rows = Append(@, updated_recipe)], PyNone, <<>>)
     ELSE Did([r EXCEPT !.rows[i] = updated_recipe], updated_recipe, <<>>)

memory_update(r, recipe_id, recipe_request) ==
  LET i == FirstWithId(r.rows, recipe_id)
      updated_recipe == Recipe(WithId(recipe_request, recipe_id)).val
  IN IF i = 0 THEN Did(r, PyNone, <<>>)
     ELSE Did([r EXCEPT !.rows[i] = updated_recipe], updated_recipe, <<>>)

\* SQLiteRecipeRepository() on a new database file: the table holds the
\* sample rows and sqlite_sequence.seq is 4.  rows is the table in the order
\* of its primary key, each row as the Recipe the SELECTs build from it
SQLiteRecipeRepository == [impl |-> "sqlite", rows |-> SampleData, seq |-> 4]

\* the Recipe built from the eight columns: id and the request's fields
Columns(recipe_id, recipe_request) ==
  Recipe(PyDict([k \in RequestFields \cup {"id"} |->
                   IF k = "id" THEN PyInt(recipe_id) ELSE recipe_request.f[k]])).val

sqlite_get_all(r) == Did(r, PyNone, r.rows)

sqlite_get_by_id(r, recipe_id) ==
  LET i == FirstWithId(r.rows, recipe_id)
  IN Did(r, IF i = 0 THEN PyNone ELSE r.rows[i], <<>>)

\* INSERT without an id: AUTOINCREMENT gives one more than the largest
\* identifier the table has ever held
sqlite_create(r, recipe_request) ==
  LET held == {r.rows[i].id.n : i \in 1..Len(r.rows)} \cup {r.seq}
      recipe_id == (CHOOSE m \in held : \A x \in held : x <= m) + 1
      new_recipe == Columns(recipe_id, recipe_request)
  IN Did([r EXCEPT !.rows = Append(@, new_recipe), !.seq = recipe_id], new_recipe, <<>>)

\* faulty variant: the UPDATE has no WHERE clause
sqlite_update_every_row(r, recipe_id, recipe_request) ==
  LET i == FirstWithId(r.rows, recipe_id)
  IN IF i = 0 THEN Did(r, PyNone, <<>>)
     ELSE Did([r EXCEPT !.rows = [k \in 1..Len(r.rows) |->
                                    Columns(r.rows[k].id.n, recipe_request)]],
              Columns(recipe_id, recipe_request), <<>>)

sqlite_update(r, recipe_id, recipe_request) ==
  LET i == FirstWithId(r.rows, recipe_id)
  IN IF i = 0 THEN Did(r, PyNone, <<>>)
     ELSE Did([r EXCEPT !.rows[i] = Columns(recipe_id, recipe_request)],
              Columns(recipe_id, recipe_request), <<>>)

\* ----------------------------------------------------------------- router
\* Optional[...] values of the endpoint
None == [some |-> FALSE, v |-> NoInfo, s |-> <<>>]
SomeInfo(info) == [some |-> TRUE, v |-> info, s |-> <<>>]
SomeQuery(q) == [some |-> TRUE, v |-> NoInfo, s |-> q]

\* RecipeResponse(**kwargs): like Recipe, but id is a required int and
\* cache_info defaults to None
RecipeResponse(kwargs) ==
  LET r == Recipe(kwargs)
  IN IF ~r.ok THEN r
     ELSE IF r.val.id.j # "int" THEN Raise("ValidationError")
     ELSE Ok([j |-> "RecipeResponse", id |-> r.val.id, title |-> r.val.title,
              ingredients |-> r.val.ingredients, steps |-> r.val.steps,
              prepTime |-> r.val.prepTime, cookTime |-> r.val.cookTime,
              difficulty |-> r.val.difficulty, cuisine |-> r.val.cuisine,
              source |-> r.val.source, cache_info |-> None])

\* RecipeResponse(**recipe.model_dump()) for every recipe in order
RECURSIVE Responses(_)
Responses(recipes) ==
  IF recipes = <<>> THEN Ok(<<>>)
  ELSE LET r == RecipeResponse(model_dump(Head(recipes)))
       IN IF ~r.ok THEN r
          ELSE LET rest == Responses(Tail(recipes))
               IN IF rest.ok THEN Ok(<<r.val>> \o rest.val) ELSE rest

\* search_recipes, the two loops that fill all_recipes
all_recipes(internal_recipes, mealdb_recipes) ==
  LET internal == Responses(internal_recipes)
      external == Responses(mealdb_recipes)
  IN IF ~internal.ok THEN internal
     ELSE IF ~external.ok THEN external
     ELSE Ok(internal.val \o external.val)

\* faulty variant: the aggregate CacheInfo is left out
SearchResultsResponse_without_info(recipes, mealdb_cache_info) ==
  [recipes |-> recipes, mealdb_cache_info |-> None]

SearchResultsResponse(recipes, mealdb_cache_info) ==
  [recipes |-> recipes, mealdb_cache_info |-> mealdb_cache_info]

\* faulty variant: only an absent query is short-circuited
query_missing_only_absent(q) == ~q.some

\* search_recipes, `if not q`
query_missing(q) == ~q.some \/ ~Truthy(PyStr(q.s))

NoLeg == [done |-> FALSE, val |-> <<>>, e |-> 0]
NoBody == SearchResultsResponse(<<>>, None)
IdleRequest ==
  [pc |-> "idle", q |-> None, internal |-> NoLeg, exc |-> "none", body |-> NoBody]

\* _transform_meal_to_recipe has not been applied yet
NoResult == [ok |-> FALSE, val |-> PyNone, exc |-> "pending"]

IdleCall ==
  [pc |-> "idle", op |-> "none", query |-> <<>>, meal_id |-> 0, key |-> <<>>,
   t0 |-> 0, b |-> 0, e |-> 0, avail |-> FALSE, held |-> NoCached, cached |-> NoCached,
   response |-> NoResponse, path |-> "none", exc |-> "none", val |-> PyNone,
   info |-> NoInfo, write |-> NoWrite, ops |-> <<>>, conn |-> "none"]

Init ==
  /\ client = "None"
  /\ redisUp \in BOOLEAN
  /\ \E seed \in Seeds :
       store \in {[x \in Keys |-> NoEntry],
                  [x \in Keys |-> IF x = seed.key THEN Entry(seed.text, ERROR_TTL) ELSE NoEntry]}
  /\ now = 0
  /\ advances = 0
  /\ flips = 0
  /\ seq = 0
  /\ calls = [c \in Calls |-> IdleCall]
  /\ meal = Meal1
  /\ recipe = NoResult
  /\ request = IdleRequest
  /\ repo = SQLiteRecipeRepository
  /\ history = <<>>
  /\ workers = [w \in Workers |-> IdleWorker]
  /\ answered = <<>>
  /\ twin = SQLiteRecipeRepository

CanBegin(c) == calls[c].pc = "idle" /\ (IF c = 1 THEN TRUE ELSE calls[c - 1].pc # "idle")

\* first stage of a call: from the entry to the return on a hit, or to the
\* suspension on the HTTP request; look is the outcome of the cached block
Begun(c, op, query, meal_id, key, got, look) ==
  [calls[c] EXCEPT
     !.pc = IF got.exc = "none" /\ look.path = "miss" THEN "waiting" ELSE "done",
     !.op = op, !.query = query, !.meal_id = meal_id, !.key = key,
     !.t0 = now, !.b = seq + 1,
     !.e = IF got.exc = "none" /\ look.path = "miss" THEN 0 ELSE seq + 1,
     !.avail = redisUp,
     !.held = IF Live(store[key], now)
              THEN [some |-> TRUE, text |-> store[key].text]
              ELSE NoCached,
     !.cached = [some |-> got.some, text |-> got.text],
     !.path = IF got.exc # "none" THEN "raise" ELSE look.path,
     !.exc = IF got.exc # "none" THEN got.exc ELSE look.exc,
     !.val = look.val,
     !.info = IF got.exc # "none" THEN NoInfo ELSE look.info,
     !.ops = IF got.exc = "none" /\ look.path = "hit" THEN <<"get", "timer">> ELSE <<"get">>,
     !.conn = IF client # "None" THEN "reused"
              ELSE IF got.client = "None" THEN "failed" ELSE "connected"]

\* search_meals up to its first suspension
BeginSearch(c, query) ==
  /\ CanBegin(c)
  /\ seq' = seq + 1
  /\ IF search_short_circuit(query)
     THEN /\ calls' = [calls EXCEPT ![c] =
                 [IdleCall EXCEPT !.pc = "done", !.op = "search", !.t0 = now,
                                  !.b = seq + 1, !.e = seq + 1, !.path = "empty",
                                  !.val = EmptyList, !.info = CacheInfo(FALSE, "cache"),
                                  !.ops = <<"timer">>]]
          /\ UNCHANGED client
     ELSE \E exc \in RedisErrors :
            LET cache_key == SearchKey(query)
                got == RedisCache_get(client, redisUp, exc, store, now, cache_key)
            IN /\ client' = got.client
               /\ calls' = [calls EXCEPT ![c] =
                    Begun(c, "search", query, 0, cache_key, got, search_cached(got))]
  /\ UNCHANGED <<redisUp, store, now, advances, flips, meal, recipe, request, repo, history, workers, answered, twin>>

\* get_meal_by_id up to its first suspension
BeginMeal(c, meal_id) ==
  /\ CanBegin(c)
  /\ seq' = seq + 1
  /\ \E exc \in RedisErrors :
       LET cache_key == MealKey(meal_id)
           got == RedisCache_get(client, redisUp, exc, store, now, cache_key)
       IN /\ client' = got.client
          /\ calls' = [calls EXCEPT ![c] =
               Begun(c, "byid", <<>>, meal_id, cache_key, got, meal_cached(got))]
  /\ UNCHANGED <<redisUp, store, now, advances, flips, meal, recipe, request, repo, history, workers, answered, twin>>

\* second stage of a call: from the HTTP response to the return; plan is
\* what the fetch block decided, wr the outcome of the cache.set it issued
Finished(c, response, plan, wr) ==
  LET escapes == plan.write.do /\ wr.exc # "none" /\ ~plan.write.guarded
  IN [calls[c] EXCEPT
        !.pc = "done", !.e = seq + 1, !.response = response,
        !.path = IF escapes THEN "raise" ELSE plan.path,
        !.exc = IF escapes THEN wr.exc ELSE plan.exc,
        !.val = plan.val,
        !.info = IF escapes THEN NoInfo ELSE plan.info,
        !.write = IF plan.write.do
                  THEN [do |-> TRUE, key |-> calls[c].key, text |-> plan.write.text,
                        ttl |-> plan.write.ttl, ok |-> wr.ok, avail |-> redisUp, at |-> now,
                        kept |-> wr.store = store]
                  ELSE NoWrite,
        !.ops = IF plan.path = "raise" THEN calls[c].ops \o <<"http">>
                ELSE IF plan.write.do THEN calls[c].ops \o <<"http", "timer", "set">>
                ELSE calls[c].ops \o <<"http", "timer">>]

Finish(c, response, plan) ==
  /\ seq' = seq + 1
  /\ \E exc \in RedisErrors :
       LET wr == IF plan.write.do
                 THEN RedisCache_set(client, redisUp, exc, store, now, calls[c].key,
                                     plan.write.text, plan.write.ttl)
                 ELSE [client |-> client, exc |-> "none", ok |-> FALSE, store |-> store]
       IN /\ client' = wr.client
          /\ store' = wr.store
          /\ calls' = [calls EXCEPT ![c] = Finished(c, response, plan, wr)]
  /\ UNCHANGED <<redisUp, now, advances, flips, meal, recipe, request, repo, history, workers, answered, twin>>

\* search_meals from the HTTP response to its return
FinishSearch(c, response) ==
  /\ calls[c].pc = "waiting"
  /\ calls[c].op = "search"
  /\ Finish(c, response, search_fetch(response))

\* get_meal_by_id from the HTTP response to its return
FinishMeal(c, response) ==
  /\ calls[c].pc = "waiting"
  /\ calls[c].op = "byid"
  /\ Finish(c, response, meal_fetch(response))

\* the run is over once every call has returned
Running == \E c \in Calls : calls[c].pc # "done"

\* time passes; d is far longer than the 5 s the HTTP client waits, so no
\* call is suspended across it
Advance(d) ==
  /\ Running
  /\ advances < MaxAdvances
  /\ \A c \in Calls : calls[c].pc # "waiting"
  /\ now' = now + d
  /\ advances' = advances + 1
  /\ UNCHANGED <<client, redisUp, store, flips, seq, calls, meal, recipe, request, repo, history, workers, answered, twin>>

\* the Redis server goes away
RedisDown ==
  /\ Running
  /\ redisUp
  /\ flips < MaxFlips
  /\ redisUp' = FALSE
  /\ flips' = flips + 1
  /\ UNCHANGED <<client, store, now, advances, seq, calls, meal, recipe, request, repo, history, workers, answered, twin>>

\* the Redis server comes back, its entries intact
RedisBack ==
  /\ Running
  /\ ~redisUp
  /\ flips < MaxFlips
  /\ redisUp' = TRUE
  /\ flips' = flips + 1
  /\ UNCHANGED <<client, store, now, advances, seq, calls, meal, recipe, request, repo, history, workers, answered, twin>>

Next ==
  \/ \E c \in Calls, query \in Queries : BeginSearch(c, query)
  \/ \E c \in Calls, meal_id \in MealIds : BeginMeal(c, meal_id)
  \/ \E c \in Calls, response \in SearchResponses : FinishSearch(c, response)
  \/ \E c \in Calls, response \in LookupResponses : FinishMeal(c, response)
  \/ \E d \in {ERROR_TTL, CACHE_TTL} : Advance(d)
  \/ RedisDown
  \/ RedisBack

Spec == Init /\ [][Next]_vars

TypeOK ==
  /\ client \in {"None", "Redis"}
  /\ redisUp \in BOOLEAN
  /\ \A c \in Calls : calls[c].pc \in {"idle", "waiting", "done"}

\* ------------------------------------------ the transformation on its own
\* The meals _transform_meal_to_recipe is applied to: every combination of
\* shapes for the ingredient and the measure of the first two slots and of
\* the last, and for the instructions.  A text field of shape "text" holds its
\* own key between blanks, so every line shows the slot it came from.
SlotsTried == {1, 2, 20}
SlotKeys == {IngredientKey(i) : i \in SlotsTried} \cup {MeasureKey(i) : i \in SlotsTried}
Shapes == {"absent", "null", "empty", "blank", "text"}

FieldOf(key, shape) ==
  CASE shape = "null"  -> PyNone
    [] shape = "empty" -> PyStr(<<>>)
    [] shape = "blank" -> PyStr(<<" ">>)
    [] OTHER           -> PyStr(<<" ", key, " ">>)

InstructionTexts ==
  {<<>>, <<" ">>, <<"mix">>, <<" ", "mix", " ">>, <<"CR", "LF">>,
   <<" ", "CR", "LF", " ", "CR", "LF">>,
   <<"mix", "CR", "LF", "bake">>,
   <<"mix", " ", "CR", "LF", "CR", "LF", " ", "bake", "CR", "LF">>,
   <<"mix", "LF", "bake", "CR">>}
InstructionFields ==
  {[shape |-> "text", text |-> PyStr(t)] : t \in InstructionTexts}
    \cup {[shape |-> "absent", text |-> PyNone], [shape |-> "null", text |-> PyNone]}

\* the meal with the given shape for every slot key and the given instructions
MealOf(shapes, instructions) ==
  LET present == {k \in SlotKeys : shapes[k] # "absent"}
      fixed == {"idMeal", "strMeal", "strArea"}
      keys == present \cup fixed
               \cup (IF instructions.shape = "absent" THEN {} ELSE {"strInstructions"})
  IN PyDict([k \in keys |->
       CASE k \in present -> FieldOf(k, shapes[k])
         [] k = "idMeal" -> PyStr(<<"7">>)
         [] k = "strMeal" -> PyStr(<<"S", "o", "u", "p">>)
         [] k = "strArea" -> PyStr(StrOf("Thai"))
         [] OTHER -> instructions.text])

TransformInit ==
  /\ client = "None"
  /\ redisUp = TRUE
  /\ store = [x \in Keys |-> NoEntry]
  /\ now = 0
  /\ advances = 0
  /\ flips = 0
  /\ seq = 0
  /\ calls = [c \in Calls |-> IdleCall]
  /\ \E shapes \in [SlotKeys -> Shapes], instructions \in InstructionFields :
       meal = MealOf(shapes, instructions)
  /\ recipe = NoResult
  /\ request = IdleRequest
  /\ repo = SQLiteRecipeRepository
  /\ history = <<>>
  /\ workers = [w \in Workers |-> IdleWorker]
  /\ answered = <<>>
  /\ twin = SQLiteRecipeRepository

\* one application of _transform_meal_to_recipe
Transform ==
  /\ recipe = NoResult
  /\ recipe' = transform_meal_to_recipe(meal)
  /\ UNCHANGED <<client, redisUp, store, now, advances, flips, seq, calls, meal, request, repo, history, workers, answered, twin>>

SpecTransform == TransformInit /\ [][Transform]_vars

\* ------------------------------------------------------- GET /recipes/search
\* the call that runs the request's search_meals task
ExternalLeg == 1

RouterQueries == {None} \cup {SomeQuery(q) : q \in Queries}

\* search_recipes from its entry to its return for a missing query, or to
\* `await asyncio.gather(...)` with both tasks created
SearchRecipes(q) ==
  /\ request.pc = "idle"
  /\ request' = IF query_missing(q)
                THEN [IdleRequest EXCEPT !.pc = "returned", !.q = q,
                                         !.body = SearchResultsResponse(<<>>, None)]
                ELSE [IdleRequest EXCEPT !.pc = "gathering", !.q = q]
  /\ UNCHANGED <<client, redisUp, store, now, advances, flips, seq, calls, meal, recipe, repo, history, workers, answered, twin>>

\* the repository task: repository.search_by_title(q) in a worker thread; it
\* runs to its end also when gather has already raised
InternalLeg ==
  /\ request.pc \in {"gathering", "raised"}
  /\ ~request.internal.done
  /\ seq' = seq + 1
  /\ request' = [request EXCEPT !.internal =
       [done |-> TRUE,
        val |-> IF repo.impl = "memory" THEN memory_search_by_title(repo, request.q.s).list
                ELSE search_by_title(repo.rows, request.q.s),
        e |-> seq + 1]]
  /\ UNCHANGED <<client, redisUp, store, now, advances, flips, calls, meal, recipe, repo, history, workers, answered, twin>>

\* the search_meals task, up to its first suspension and from the HTTP
\* response to its return
ExternalBeginOf(leg) ==
  /\ request.pc = "gathering"
  /\ BeginSearch(leg, request.q.s)

ExternalFinishOf(leg, response) ==
  /\ request.pc = "gathering"
  /\ FinishSearch(leg, response)

ExternalBegin == ExternalBeginOf(ExternalLeg)

ExternalFinish(response) == ExternalFinishOf(ExternalLeg, response)

\* search_recipes from the completion of gather to its return: gather raises
\* as soon as the search_meals task has raised, and otherwise returns once both
\* tasks are done
GatherOf(leg) ==
  /\ request.pc = "gathering"
  /\ calls[leg].pc = "done"
  /\ calls[leg].exc # "none" \/ request.internal.done
  /\ request' =
       IF calls[leg].exc # "none"
       THEN [request EXCEPT !.pc = "raised", !.exc = calls[leg].exc]
       ELSE LET all == all_recipes(request.internal.val, calls[leg].val.items)
            IN IF ~all.ok
               THEN [request EXCEPT !.pc = "raised", !.exc = all.exc]
               ELSE [request EXCEPT
                       !.pc = "returned",
                       !.body = SearchResultsResponse(all.val, SomeInfo(calls[leg].info))]
  /\ UNCHANGED <<client, redisUp, store, now, advances, flips, seq, calls, meal, recipe, repo, history, workers, answered, twin>>

Gather == GatherOf(ExternalLeg)

RouterNext ==
  \/ \E q \in RouterQueries : SearchRecipes(q)
  \/ InternalLeg
  \/ ExternalBegin
  \/ \E response \in SearchResponses : ExternalFinish(response)
  \/ Gather
  \/ \E d \in {ERROR_TTL, CACHE_TTL} : Advance(d)
  \/ RedisDown
  \/ RedisBack

SpecRouter == Init /\ [][RouterNext]_vars

\* ------------------------------------------------- the repository endpoints
\* request bodies: the fields of a record the combined search returned from
\* the catalog, sent back with its provenance; a plain body whose title a
\* sample record has too; a body without the required fields
Body(title, cuisine) ==
  [title |-> PyStr(title), ingredients |-> PyList(<<PyStr(StrOf("rice"))>>),
   steps |-> PyList(<<PyStr(StrOf("boil")), PyStr(StrOf("serve"))>>),
   prepTime |-> PyStr(StrOf("5 min")), cookTime |-> PyStr(StrOf("10 min")),
   difficulty |-> PyStr(StrOf("medium")), cuisine |-> PyStr(cuisine)]

BodyFromCatalog ==
  LET f == Body(<<"_", "z">>, StrOf("Thai"))
  IN PyDict([k \in DOMAIN f \cup {"source"} |->
               IF k = "source" THEN PyStr(StrOf("mealdb")) ELSE f[k]])

Bodies == {BodyFromCatalog, PyDict(Body(<<"A", "b">>, StrOf("American"))), PartialRecord}

\* identifiers in the paths: a sample record, the first created record, none
RecipeIds == {2, 5, 9}

RepoQueries == {<<>>, <<"_">>, <<"z">>, <<"b">>}

\* the entry of history for one operation
Op(name, recipe_id, query, recipe_request, did, status, response) ==
  [op |-> name, recipe_id |-> recipe_id, query |-> query,
   request |-> IF recipe_request.ok THEN recipe_request.val ELSE PyNone,
   ret |-> did.ret, list |-> did.list, status |-> status, response |-> response,
   before |-> repo.rows, after |-> did.repo.rows]

RepoInit ==
  /\ client = "None"
  /\ redisUp = TRUE
  /\ store = [x \in Keys |-> NoEntry]
  /\ now = 0
  /\ advances = 0
  /\ flips = 0
  /\ seq = 0
  /\ calls = [c \in Calls |-> IdleCall]
  /\ meal = Meal1
  /\ recipe = NoResult
  /\ request = IdleRequest
  /\ repo \in {InMemoryRecipeRepository, SQLiteRecipeRepository}
  /\ history = <<>>
  /\ workers = [w \in Workers |-> IdleWorker]
  /\ answered = <<>>
  /\ twin = SQLiteRecipeRepository

\* GET /recipes
GetAllRecipes ==
  /\ Len(history) < MaxOps
  /\ LET did == IF repo.impl = "memory" THEN memory_get_all(repo) ELSE sqlite_get_all(repo)
         response == Responses(did.list)
     IN /\ repo' = did.repo
        /\ history' = Append(history,
             Op("get_all", 0, <<>>, Raise("none"), did, IF response.ok THEN 200 ELSE 500,
                IF response.ok THEN PyList(response.val) ELSE PyNone))
  /\ UNCHANGED <<client, redisUp, store, now, advances, flips, seq, calls, meal, recipe, request, workers, answered, twin>>

\* the repository task of GET /recipes/search: repository.search_by_title(q)
SearchByTitle(q) ==
  /\ Len(history) < MaxOps
  /\ LET did == IF repo.impl = "memory" THEN memory_search_by_title(repo, q)
                ELSE Did(repo, PyNone, search_by_title(repo.rows, q))
     IN /\ repo' = did.repo
        /\ history' = Append(history, Op("search", 0, q, Raise("none"), did, 200, PyNone))
  /\ UNCHANGED <<client, redisUp, store, now, advances, flips, seq, calls, meal, recipe, request, workers, answered, twin>>

\* GET /recipes/internal/{recipe_id}
GetInternalRecipeById(recipe_id) ==
  /\ Len(history) < MaxOps
  /\ LET did == IF repo.impl = "memory" THEN memory_get_by_id(repo, recipe_id)
                ELSE sqlite_get_by_id(repo, recipe_id)
         response == IF did.ret = PyNone THEN Raise("HTTPException")
                     ELSE RecipeResponse(model_dump(did.ret))
     IN /\ repo' = did.repo
        /\ history' = Append(history,
             Op("get_by_id", recipe_id, <<>>, Raise("none"), did,
                IF did.ret = PyNone THEN 404 ELSE IF response.ok THEN 200 ELSE 500,
                response.val))
  /\ UNCHANGED <<client, redisUp, store, now, advances, flips, seq, calls, meal, recipe, request, workers, answered, twin>>

\* POST /recipes: a body that does not validate is answered 422 and the
\* handler does not run
CreateRecipe(body) ==
  /\ Len(history) < MaxOps
  /\ LET recipe_request == RecipeRequest(body)
         did == IF ~recipe_request.ok THEN Did(repo, PyNone, <<>>)
                ELSE IF repo.impl = "memory" THEN memory_create(repo, recipe_request.val)
                ELSE sqlite_create(repo, recipe_request.val)
         response == IF ~recipe_request.ok THEN recipe_request
                     ELSE RecipeResponse(model_dump(did.ret))
     IN /\ repo' = did.repo
        /\ history' = Append(history,
             Op("create", 0, <<>>, recipe_request, did,
                IF ~recipe_request.ok THEN 422 ELSE IF response.ok THEN 201 ELSE 500,
                response.val))
  /\ UNCHANGED <<client, redisUp, store, now, advances, flips, seq, calls, meal, recipe, request, workers, answered, twin>>

\* PUT /recipes/internal/{recipe_id}
UpdateInternalRecipe(recipe_id, body) ==
  /\ Len(history) < MaxOps
  /\ LET recipe_request == RecipeRequest(body)
         did == IF ~recipe_request.ok THEN Did(repo, PyNone, <<>>)
                ELSE IF repo.impl = "memory"
                     THEN memory_update(repo, recipe_id, recipe_request.val)
                     ELSE sqlite_update(repo, recipe_id, recipe_request.val)
         response == IF ~recipe_request.ok THEN recipe_request
                     ELSE IF did.ret = PyNone THEN Raise("HTTPException")
                     ELSE RecipeResponse(model_dump(did.ret))
     IN /\ repo' = did.repo
        /\ history' = Append(history,
             Op("update", recipe_id, <<>>, recipe_request, did,
                IF ~recipe_request.ok THEN 422
                ELSE IF did.ret = PyNone THEN 404
                ELSE IF response.ok THEN 200 ELSE 500,
                response.val))
  /\ UNCHANGED <<client, redisUp, store, now, advances, flips, seq, calls, meal, recipe, request, workers, answered, twin>>

RepoNext ==
  \/ GetAllRecipes
  \/ \E q \in RepoQueries : SearchByTitle(q)
  \/ \E recipe_id \in RecipeIds : GetInternalRecipeById(recipe_id)
  \/ \E body \in Bodies : CreateRecipe(body)
  \/ \E recipe_id \in RecipeIds, body \in Bodies : UpdateInternalRecipe(recipe_id, body)

SpecRepo == RepoInit /\ [][RepoNext]_vars

\* ------------------------------------------- repository writes and catalog
\* the endpoints that write the repository next to the two that read the
\* catalog: the combined search, whose search_meals task is the first call,
\* and the external lookup by identifier, the call after it
ApiNext ==
  \/ \E body \in Bodies \ {PartialRecord} : CreateRecipe(body)
  \/ \E recipe_id \in RecipeIds \ {9}, body \in Bodies \ {PartialRecord} :
       UpdateInternalRecipe(recipe_id, body)
  \/ SearchRecipes(SomeQuery(<<"a">>))
  \/ InternalLeg
  \/ ExternalBegin
  \/ ExternalFinish(MealsBody(PyList(<<Meal2, Meal1>>)))
  \/ Gather
  \/ \E meal_id \in MealIds : BeginMeal(ExternalLeg + 1, meal_id)
  \/ FinishMeal(ExternalLeg + 1, MealsBody(PyList(<<Meal2>>)))

SpecApi == RepoInit /\ [][ApiNext]_vars

\* ------------------------------------------- calls with different arguments
\* the cache is empty or holds one well-formed payload
KeysInit ==
  /\ client = "None"
  /\ redisUp = TRUE
  /\ store \in {[x \in Keys |-> NoEntry]}
       \cup {[x \in Keys |-> IF x = SearchKey(q)
                            THEN Entry(JsonText(PyList(<<model_dump(Recipe1)>>)), CACHE_TTL)
                            ELSE NoEntry] : q \in KeyQueries}
       \cup {[x \in Keys |-> IF x = MealKey(i)
                            THEN Entry(JsonText(model_dump(Recipe1)), CACHE_TTL)
                            ELSE NoEntry] : i \in KeyMealIds}
  /\ now = 0
  /\ advances = 0
  /\ flips = 0
  /\ seq = 0
  /\ calls = [c \in Calls |-> IdleCall]
  /\ meal = Meal1
  /\ recipe = NoResult
  /\ request = IdleRequest
  /\ repo = SQLiteRecipeRepository
  /\ history = <<>>
  /\ workers = [w \in Workers |-> IdleWorker]
  /\ answered = <<>>
  /\ twin = SQLiteRecipeRepository

KeysNext ==
  \/ \E c \in Calls, query \in KeyQueries : BeginSearch(c, query)
  \/ \E c \in Calls, meal_id \in KeyMealIds : BeginMeal(c, meal_id)
  \/ \E c \in Calls,
        response \in {MealsBody(PyNone), MealsBody(PyList(<<Meal2, Meal1>>)),
                      HttpFailure("ReadTimeout")} :
       FinishSearch(c, response)
  \/ \E c \in Calls,
        response \in {MealsBody(PyNone), MealsBody(PyList(<<Meal2>>)),
                      HttpFailure("ReadTimeout")} :
       FinishMeal(c, response)
  \/ \E d \in {ERROR_TTL, CACHE_TTL} : Advance(d)

SpecKeys == KeysInit /\ [][KeysNext]_vars

\* --------------------------------------------- POST /recipes in the thread pool
\* create_recipe is a plain `def`: every request runs it in a thread of the
\* pool, on the one repository object.  The threads may be switched between
\* the statements of InMemoryRecipeRepository.create, and between the load
\* and the store of `self._next_id += 1`.
PoolInit ==
  /\ client = "None"
  /\ redisUp = TRUE
  /\ store = [x \in Keys |-> NoEntry]
  /\ now = 0
  /\ advances = 0
  /\ flips = 0
  /\ seq = 0
  /\ calls = [c \in Calls |-> IdleCall]
  /\ meal = Meal1
  /\ recipe = NoResult
  /\ request = IdleRequest
  /\ repo = InMemoryRecipeRepository
  /\ history = <<>>
  /\ workers = [w \in Workers |-> IdleWorker]
  /\ answered = <<>>
  /\ twin = SQLiteRecipeRepository

\* `recipe = Recipe(**recipe_request.model_dump(), id=self._next_id)`
PoolBuild(w, body) ==
  /\ workers[w].pc = "idle"
  /\ RecipeRequest(body).ok
  /\ workers' = [workers EXCEPT ![w] =
       [@ EXCEPT !.pc = "built",
                 !.new_recipe = Recipe(WithId(RecipeRequest(body).val, repo.next_id)).val]]
  /\ UNCHANGED <<client, redisUp, store, now, advances, flips, seq, calls, meal, recipe, request,
                 repo, history, answered, twin>>

\* `self._recipes.append(recipe)`
PoolAppend(w) ==
  /\ workers[w].pc = "built"
  /\ repo' = [repo EXCEPT !.rows = Append(@, workers[w].new_recipe)]
  /\ workers' = [workers EXCEPT ![w] = [@ EXCEPT !.pc = "appended"]]
  /\ UNCHANGED <<client, redisUp, store, now, advances, flips, seq, calls, meal, recipe, request,
                 history, answered, twin>>

\* `self._next_id += 1`, the load of the attribute
PoolLoad(w) ==
  /\ workers[w].pc = "appended"
  /\ workers' = [workers EXCEPT ![w] = [@ EXCEPT !.pc = "loaded", !.next_id = repo.next_id]]
  /\ UNCHANGED <<client, redisUp, store, now, advances, flips, seq, calls, meal, recipe, request,
                 repo, history, answered, twin>>

\* `self._next_id += 1`, the store of the sum, and `return recipe`
PoolStore(w) ==
  /\ workers[w].pc = "loaded"
  /\ repo' = [repo EXCEPT !.next_id = workers[w].next_id + 1]
  /\ workers' = [workers EXCEPT ![w] = [@ EXCEPT !.pc = "returned"]]
  /\ UNCHANGED <<client, redisUp, store, now, advances, flips, seq, calls, meal, recipe, request,
                 history, answered, twin>>

PoolNext ==
  \/ \E w \in Workers, body \in Bodies : PoolBuild(w, body)
  \/ \E w \in Workers : PoolAppend(w)
  \/ \E w \in Workers : PoolLoad(w)
  \/ \E w \in Workers : PoolStore(w)

SpecPool == PoolInit /\ [][PoolNext]_vars

\* ------------------------------------------------ two searches, one after the other
\* Two GET /recipes/search requests on the same repository and catalog, the
\* second entered once the first is answered and its repository task is over.
\* The search_meals task of the n-th request is call n.  The catalog is the
\* same for both: it answers the second request as it answered the first.
PairQueries == {<<"a">>, <<"A">>, <<" ", "A">>}

PairLeg == Len(answered) + 1

\* search_recipes entered again, with a non-empty query
SearchAgain(q) ==
  /\ request.pc \in {"returned", "raised"}
  /\ request.internal.done
  /\ answered = <<>>
  /\ ~query_missing(q)
  /\ answered' = Append(answered, request)
  /\ request' = [IdleRequest EXCEPT !.pc = "gathering", !.q = q]
  /\ UNCHANGED <<client, redisUp, store, now, advances, flips, seq, calls, meal, recipe, repo,
                 history, workers, twin>>

PairFinish(response) ==
  /\ \A i \in 1..Len(answered) :
       calls[i].response # NoResponse => response = calls[i].response
  /\ ExternalFinishOf(PairLeg, response)

PairNext ==
  \/ \E q \in PairQueries : SearchRecipes(SomeQuery(q))
  \/ \E q \in PairQueries : SearchAgain(SomeQuery(q))
  \/ InternalLeg
  \/ ExternalBeginOf(PairLeg)
  \/ \E response \in SearchResponses : PairFinish(response)
  \/ GatherOf(PairLeg)

SpecPair == RepoInit /\ [][PairNext]_vars

\* ------------------------------------------- the two repositories side by side
\* An InMemoryRecipeRepository (`repo`) and a SQLiteRecipeRepository on a new
\* database file (`twin`), both holding the sample data, receive the same
\* calls; history keeps what each returned.
TwinQueries == RepoQueries \cup {<<"%">>}

Both(name, recipe_id, query, did, other) ==
  [op |-> name, recipe_id |-> recipe_id, query |-> query,
   ret |-> did.ret, list |-> did.list, twin_ret |-> other.ret, twin_list |-> other.list]

TwinInit ==
  /\ client = "None"
  /\ redisUp = TRUE
  /\ store = [x \in Keys |-> NoEntry]
  /\ now = 0
  /\ advances = 0
  /\ flips = 0
  /\ seq = 0
  /\ calls = [c \in Calls |-> IdleCall]
  /\ meal = Meal1
  /\ recipe = NoResult
  /\ request = IdleRequest
  /\ repo = InMemoryRecipeRepository
  /\ history = <<>>
  /\ workers = [w \in Workers |-> IdleWorker]
  /\ answered = <<>>
  /\ twin = SQLiteRecipeRepository

\* one call of a method on both repositories
TwinCall(name, recipe_id, query, did, other) ==
  /\ Len(history) < MaxOps
  /\ repo' = did.repo
  /\ twin' = other.repo
  /\ history' = Append(history, Both(name, recipe_id, query, did, other))
  /\ UNCHANGED <<client, redisUp, store, now, advances, flips, seq, calls, meal, recipe, request,
                 workers, answered>>

TwinGetAll == TwinCall("get_all", 0, <<>>, memory_get_all(repo), sqlite_get_all(twin))

TwinSearchByTitle(q) ==
  TwinCall("search", 0, q, memory_search_by_title(repo, q),
           Did(twin, PyNone, search_by_title(twin.rows, q)))

TwinGetById(recipe_id) ==
  TwinCall("get_by_id", recipe_id, <<>>, memory_get_by_id(repo, recipe_id),
           sqlite_get_by_id(twin, recipe_id))

TwinCreate(body) ==
  /\ RecipeRequest(body).ok
  /\ TwinCall("create", 0, <<>>, memory_create(repo, RecipeRequest(body).val),
              sqlite_create(twin, RecipeRequest(body).val))

TwinUpdate(recipe_id, body) ==
  /\ RecipeRequest(body).ok
  /\ TwinCall("update", recipe_id, <<>>,
              memory_update(repo, recipe_id, RecipeRequest(body).val),
              sqlite_update(twin, recipe_id, RecipeRequest(body).val))

TwinNext ==
  \/ TwinGetAll
  \/ \E q \in TwinQueries : TwinSearchByTitle(q)
  \/ \E recipe_id \in RecipeIds : TwinGetById(recipe_id)
  \/ \E body \in Bodies : TwinCreate(body)
  \/ \E recipe_id \in RecipeIds, body \in Bodies : TwinUpdate(recipe_id, body)

SpecTwin == TwinInit /\ [][TwinNext]_vars

\* ------------------------------------------------- requests that must end
\* faulty variant: httpx.AsyncClient(timeout=None), the client waits as long
\* as the catalog stays silent
HttpTimeout_none(c) == FALSE

\* httpx.AsyncClient(timeout=5.0): the request of call c is unanswered and
\* the client gives up on it
HttpTimeout(c) == calls[c].pc = "waiting"

Lookup == ExternalLeg + 1

\* no query, and a query that one sample title contains; the catalog has at
\* most one meal for it
LiveQueries == {None, SomeQuery(<<" ", "A">>)}

\* the catalog answers, or the connection or the status fails
CatalogAnswersSearch ==
  \E response \in LookupResponses \ {HttpFailure("ReadTimeout")} : ExternalFinish(response)

CatalogAnswersLookup ==
  \E response \in LookupResponses \ {HttpFailure("ReadTimeout")} : FinishMeal(Lookup, response)

\* the client raises httpx.ReadTimeout into the waiting call
SearchTimeout ==
  /\ HttpTimeout(ExternalLeg)
  /\ ExternalFinish(HttpFailure("ReadTimeout"))

LookupTimeout ==
  /\ HttpTimeout(Lookup)
  /\ FinishMeal(Lookup, HttpFailure("ReadTimeout"))

\* a combined search, whose search_meals task is the first call, and a
\* lookup by identifier, the call after it
LiveNext ==
  \/ \E q \in LiveQueries : SearchRecipes(q)
  \/ InternalLeg
  \/ ExternalBegin
  \/ CatalogAnswersSearch
  \/ SearchTimeout
  \/ Gather
  \/ \E meal_id \in MealIds : BeginMeal(Lookup, meal_id)
  \/ CatalogAnswersLookup
  \/ LookupTimeout

\* the Redis server answers or not, and holds no entry
LiveInit == Init /\ \A k \in Keys : store[k] = NoEntry

\* what goes on without the catalog: the event loop runs every task it has
\* created and every cache-store call returns (ExternalBegin, Gather), the
\* worker thread returns from the repository search (InternalLeg), and the
\* HTTP client gives up on a request that is not answered (SearchTimeout,
\* LookupTimeout)
Scheduled ==
  \/ InternalLeg
  \/ ExternalBegin
  \/ SearchTimeout
  \/ LookupTimeout
  \/ Gather

\* Some step that can go on without the catalog is eventually taken; nothing
\* makes the catalog answer.
SpecLive == LiveInit /\ [][LiveNext]_vars /\ WF_vars(Scheduled)

\* ----------------------------------------------------------------- claims
Started(c) == calls[c].pc # "idle"
Done(c) == calls[c].pc = "done"

\* a read-through call: by-id, or search with a non-empty query
ReadThrough(c) ==
  Started(c) /\ (calls[c].op = "byid" \/ (calls[c].op = "search" /\ calls[c].query # <<>>))

\* the expected shape of a cached payload: a Record as a JSON object ...
RecordFields ==
  {"id", "title", "ingredients", "steps", "prepTime", "cookTime", "difficulty", "cuisine", "source"}
IsRecordObject(v) ==
  /\ v.j = "dict"
  /\ DOMAIN v.f = RecordFields
  /\ v.f["id"].j \in {"null", "int"}
  /\ \A k \in {"title", "prepTime", "cookTime", "difficulty", "cuisine", "source"} : v.f[k].j = "str"
  /\ \A k \in {"ingredients", "steps"} :
       v.f[k].j = "list" /\ \A i \in 1..Len(v.f[k].items) : v.f[k].items[i].j = "str"
\* ... and the Record it stands for
RecordOf(v) ==
  [j |-> "Recipe", id |-> v.f["id"], title |-> v.f["title"].s,
   ingredients |-> [i \in 1..Len(v.f["ingredients"].items) |-> v.f["ingredients"].items[i].s],
   steps |-> [i \in 1..Len(v.f["steps"].items) |-> v.f["steps"].items[i].s],
   prepTime |-> v.f["prepTime"].s, cookTime |-> v.f["cookTime"].s,
   difficulty |-> v.f["difficulty"].s, cuisine |-> v.f["cuisine"].s,
   source |-> v.f["source"].s]

\* a payload of the expected shape for the operation: a list of Records for
\* search; a Record or the null marker for by-id
WellShaped(op, text) ==
  /\ text.fmt = "json"
  /\ IF op = "search"
     THEN text.val.j = "list" /\ \A i \in 1..Len(text.val.items) : IsRecordObject(text.val.items[i])
     ELSE text.val.j = "null" \/ IsRecordObject(text.val)
Decoded(op, text) ==
  IF op = "search"
  THEN PyList([i \in 1..Len(text.val.items) |-> RecordOf(text.val.items[i])])
  ELSE IF text.val.j = "null" THEN PyNone ELSE RecordOf(text.val)

\* the call found, with the store reachable, a live payload of the expected shape
FoundWellShaped(c) ==
  /\ ReadThrough(c)
  /\ calls[c].avail
  /\ calls[c].held.some
  /\ WellShaped(calls[c].op, calls[c].held.text)

Uses(c, what) == \E i \in 1..Len(calls[c].ops) : calls[c].ops[i] = what

\* C1: a read-through call that finds an unexpired payload of the expected
\* shape under its key returns the deserialized payload with hit = true and
\* source = cache, and makes no catalog request and no cache write.
C1_HitReturnsCached ==
  \A c \in Calls :
    FoundWellShaped(c) =>
      /\ Done(c)
      /\ calls[c].exc = "none"
      /\ calls[c].val = Decoded(calls[c].op, calls[c].held.text)
      /\ calls[c].info = CacheInfo(TRUE, "cache")
      /\ ~Uses(c, "http")
      /\ ~Uses(c, "set")
      /\ ~calls[c].write.do

C1_Witness ==
  \E c, d \in Calls :
    /\ calls[d].write.ok /\ calls[d].e < calls[c].b
    /\ FoundWellShaped(c) /\ calls[c].held.text = calls[d].write.text
    /\ calls[c].info.hit /\ calls[c].val.j \in {"list", "Recipe"}
    /\ calls[c].val.j = "list" => calls[c].val.items # <<>>

\* the catalog answered with a JSON object
Answered(c) ==
  /\ ReadThrough(c)
  /\ Done(c)
  /\ calls[c].response.kind = "body"
  /\ calls[c].response.body.fmt = "json"
  /\ calls[c].response.body.val.j = "dict"

MealsOf(c) == DictGet(calls[c].response.body.val, "meals")

\* the catalog call succeeded with a non-empty result: a non-empty list of
\* meals, each of which transforms into a Record
SucceededNonEmpty(c) ==
  /\ Answered(c)
  /\ MealsOf(c).j = "list"
  /\ MealsOf(c).items # <<>>
  /\ \A i \in 1..Len(MealsOf(c).items) : transform_meal_to_recipe(MealsOf(c).items[i]).ok

\* the catalog call succeeded and reported no match
SucceededNoMatch(c) == Answered(c) /\ MealsOf(c) \in {PyNone, EmptyList}

\* the catalog call failed: connection error, timeout or HTTP error status
Failed(c) == ReadThrough(c) /\ Done(c) /\ calls[c].response.kind = "exc"

\* the payload that serializes the value the call returned
Serialized(c) ==
  IF calls[c].op = "search"
  THEN json_dumps(PyList([i \in 1..Len(calls[c].val.items) |-> model_dump(calls[c].val.items[i])]))
  ELSE IF calls[c].val.j = "Recipe" THEN json_dumps(model_dump(calls[c].val))
  ELSE json_dumps(PyNone)

\* no later call has written the key of c
LastWriter(c) ==
  \A d \in Calls : (d # c /\ calls[d].write.ok /\ calls[d].key = calls[c].key) => calls[d].e < calls[c].e

\* the call issued cache.set(key, text, ttl); the write took effect when the
\* store was reachable, and the entry is there until a later call overwrites it
Wrote(c, text, ttl) ==
  /\ calls[c].write.do
  /\ calls[c].write.key = calls[c].key
  /\ calls[c].write.text = text
  /\ calls[c].write.ttl = ttl
  /\ calls[c].write.avail => calls[c].write.ok
  /\ (calls[c].write.ok /\ LastWriter(c)) =>
       store[calls[c].key] = Entry(text, calls[c].write.at + ttl)

\* C2: on a miss where the catalog call succeeds with a non-empty result, the
\* serialized result is stored under the call's key with the 24-hour TTL
\* (86400 s) and the result is returned with hit = false and source = api.
C2_MissSuccessStores ==
  \A c \in Calls :
    SucceededNonEmpty(c) =>
      /\ calls[c].exc = "none"
      /\ calls[c].val = (IF calls[c].op = "search"
                         THEN PyList([i \in 1..Len(MealsOf(c).items) |->
                                        transform_meal_to_recipe(MealsOf(c).items[i]).val])
                         ELSE transform_meal_to_recipe(MealsOf(c).items[1]).val)
      /\ calls[c].info = CacheInfo(FALSE, "api")
      /\ Wrote(c, Serialized(c), 86400)
      /\ calls[c].key = (IF calls[c].op = "search" THEN SearchKey(calls[c].query)
                                                  ELSE MealKey(calls[c].meal_id))

C2_Witness ==
  /\ \E c \in Calls : SucceededNonEmpty(c) /\ calls[c].op = "search" /\ calls[c].write.ok
  /\ \E c \in Calls : SucceededNonEmpty(c) /\ calls[c].op = "byid" /\ calls[c].write.ok

\* C3: on a miss where the catalog call succeeds but reports no match, the
\* negative result (empty list for search, null marker for by-id) is stored
\* under the same key with the 24-hour TTL and is returned with hit = false
\* and source = api.
C3_MissNoMatchStoresNegative ==
  \A c \in Calls :
    SucceededNoMatch(c) =>
      /\ calls[c].exc = "none"
      /\ calls[c].val = (IF calls[c].op = "search" THEN EmptyList ELSE PyNone)
      /\ calls[c].info = CacheInfo(FALSE, "api")
      /\ Wrote(c, JsonText(IF calls[c].op = "search" THEN EmptyList ELSE PyNone), 86400)

C3_Witness ==
  /\ \E c \in Calls : SucceededNoMatch(c) /\ calls[c].op = "search" /\ calls[c].write.ok
  /\ \E c \in Calls : SucceededNoMatch(c) /\ calls[c].op = "byid" /\ calls[c].write.ok

\* C4: when search_meals misses the cache and the catalog call fails (the
\* store being reachable throughout), an empty list is written under the
\* search key with the 5-minute TTL and the empty list is returned with
\* hit = false and source = api, no fault raised.
C4_SearchFailureCachesNegative ==
  \A c \in Calls :
    (Failed(c) /\ calls[c].op = "search" /\ calls[c].avail /\ redisUp) =>
      /\ calls[c].exc = "none"
      /\ calls[c].val = EmptyList
      /\ calls[c].info = CacheInfo(FALSE, "api")
      /\ Wrote(c, JsonText(EmptyList), 300)

\* C5: when get_meal_by_id misses the cache and the catalog call fails
\* (connection error, timeout or HTTP error status alike), it returns absent
\* with hit = false and source = api, raises nothing, and writes the null
\* marker under the by-id key with a TTL of 300 s, shorter than the 24 hours
\* of a genuine empty result.
C5_LookupFailureCachesBriefly ==
  \A c \in Calls :
    (Failed(c) /\ calls[c].op = "byid") =>
      /\ calls[c].exc = "none"
      /\ calls[c].val = PyNone
      /\ calls[c].info = CacheInfo(FALSE, "api")
      /\ Wrote(c, JsonText(PyNone), 300)
      /\ calls[c].key = MealKey(calls[c].meal_id)
      /\ calls[c].write.ttl < 86400
      /\ \A d \in Calls :
           (SucceededNoMatch(d) /\ calls[d].op = "byid") => calls[c].write.ttl < calls[d].write.ttl

C5_Witness ==
  \E c, d \in Calls :
    /\ Failed(c) /\ calls[c].op = "byid" /\ calls[c].response.exc = "ReadTimeout"
    /\ calls[c].write.ok
    /\ SucceededNoMatch(d) /\ calls[d].op = "byid" /\ calls[d].write.ok

\* the call found, with the store reachable, a live payload that is not of
\* the expected shape
FoundCorrupted(c) ==
  /\ ReadThrough(c)
  /\ calls[c].avail
  /\ calls[c].held.some
  /\ ~WellShaped(calls[c].op, calls[c].held.text)

\* C6: when the cache holds a payload under the key that cannot be
\* deserialized into the expected shape, the entry is treated as absent, the
\* call goes on to the catalog request, and no deserialization fault reaches
\* the caller.
C6_CorruptedTreatedAsMiss ==
  \A c \in Calls :
    FoundCorrupted(c) =>
      /\ calls[c].exc \notin {"JSONDecodeError", "TypeError", "ValidationError"}
      /\ calls[c].path # "hit"
      /\ calls[c].pc = "waiting" \/ Uses(c, "http")

\* the deserialization faults the code does handle: not JSON, or JSON that is
\* no mapping where one is needed
C6_HandledCorruption ==
  \E c \in Calls :
    /\ FoundCorrupted(c)
    /\ calls[c].held.text \in {RawText, JsonText(PyNone), JsonText(PyList(<<model_dump(Recipe1)>>))}
    /\ Uses(c, "http")

\* d is the last call that wrote the key of c before c started
LastSetBefore(d, c) ==
  /\ calls[d].write.ok
  /\ calls[d].key = calls[c].key
  /\ calls[d].e < calls[c].b
  /\ \A x \in Calls :
       (calls[x].write.ok /\ calls[x].key = calls[c].key /\ calls[x].e < calls[c].b)
         => calls[x].e <= calls[d].e

Norm(q) == Strip(Lower(q))

\* C7: search queries with equal trimmed, lower-cased forms get the same
\* cache key; with the store available, once a search for q1 has populated
\* the cache, a search for q2 before expiry is a cache hit, also when q1 and
\* q2 differ by case or surrounding whitespace.
C7_NormalizedQueriesShareCache ==
  \A c1, c2 \in Calls :
    (/\ calls[c1].op = "search" /\ calls[c1].query # <<>>
     /\ calls[c2].op = "search" /\ calls[c2].query # <<>>
     /\ Norm(calls[c1].query) = Norm(calls[c2].query)) =>
      /\ calls[c1].key = calls[c2].key
      /\ (/\ calls[c1].write.ok
          /\ calls[c1].e < calls[c2].b
          /\ calls[c2].avail
          /\ calls[c2].t0 < calls[c1].write.at + calls[c1].write.ttl) =>
           /\ calls[c2].info = CacheInfo(TRUE, "cache")
           /\ calls[c2].exc = "none"
           /\ ~Uses(c2, "http")
           /\ LastSetBefore(c1, c2) => calls[c2].val = calls[c1].val

C7_Witness ==
  \E c1, c2 \in Calls :
    /\ calls[c1].op = "search" /\ calls[c2].op = "search"
    /\ calls[c1].query # calls[c2].query
    /\ calls[c1].query # <<>> /\ calls[c2].query # <<>>
    /\ calls[c1].write.ok /\ calls[c1].val.items # <<>>
    /\ calls[c1].e < calls[c2].b
    /\ calls[c2].info.hit

\* c2 is the call right after c1: it started after c1 returned and no other
\* call returned in between
Consecutive(c1, c2) ==
  /\ Done(c1) /\ Started(c2)
  /\ calls[c1].e < calls[c2].b
  /\ \A d \in Calls : ~(Done(d) /\ calls[c1].e < calls[d].e /\ calls[d].e < calls[c2].b)

\* C8: with the store available, of two consecutive get_meal_by_id calls for
\* an identifier the catalog does not have, both return absent; the first has
\* hit = false, the second has hit = true and makes no catalog request.
C8_NegativeLookupIdempotent ==
  \A c1, c2 \in Calls :
    (/\ calls[c1].op = "byid" /\ calls[c2].op = "byid"
     /\ calls[c1].meal_id = calls[c2].meal_id
     /\ Consecutive(c1, c2) /\ Done(c2)
     /\ SucceededNoMatch(c1)
     /\ calls[c1].avail /\ calls[c1].write.avail /\ calls[c2].avail
     /\ calls[c2].t0 < calls[c1].write.at + CACHE_TTL) =>
      /\ calls[c1].exc = "none" /\ calls[c1].val = PyNone
      /\ calls[c1].info.hit = FALSE
      /\ calls[c2].exc = "none" /\ calls[c2].val = PyNone
      /\ calls[c2].info.hit = TRUE
      /\ ~Uses(c2, "http")

C8_Witness ==
  \E c1, c2 \in Calls :
    /\ calls[c1].op = "byid" /\ calls[c2].op = "byid"
    /\ Consecutive(c1, c2) /\ Done(c2)
    /\ SucceededNoMatch(c1)
    /\ calls[c1].avail /\ calls[c1].write.avail /\ calls[c2].avail
    /\ calls[c2].t0 < calls[c1].write.at + CACHE_TTL
    /\ calls[c2].t0 > calls[c1].write.at

\* the Redis server has been away since the start
Outage == flips = 0 /\ ~redisUp

\* what the catalog call of c yields: the transformed meals, or the negative
\* result when there is no match or the call failed
Yield(c) ==
  IF SucceededNonEmpty(c)
  THEN IF calls[c].op = "search"
       THEN PyList([i \in 1..Len(MealsOf(c).items) |->
                      transform_meal_to_recipe(MealsOf(c).items[i]).val])
       ELSE transform_meal_to_recipe(MealsOf(c).items[1]).val
  ELSE IF calls[c].op = "search" THEN EmptyList ELSE PyNone

\* C9: with the cache store unavailable for the whole run, every read-through
\* call is a miss that returns what the catalog call yields with hit = false
\* and source = api, and no fault of the cache store reaches the caller.
C9_OutageServesFromCatalog ==
  Outage =>
    \A c \in Calls :
      ReadThrough(c) =>
        /\ calls[c].exc \notin RedisErrors
        /\ calls[c].path # "hit"
        /\ calls[c].cached = NoCached
        /\ Done(c) =>
             /\ Uses(c, "http")
             /\ (Failed(c) \/ SucceededNoMatch(c) \/ SucceededNonEmpty(c)) =>
                  /\ calls[c].exc = "none"
                  /\ calls[c].info = CacheInfo(FALSE, "api")
                  /\ calls[c].val = Yield(c)

C9_Witness ==
  /\ Outage
  /\ \E c \in Calls : calls[c].op = "search" /\ SucceededNonEmpty(c) /\ calls[c].held.some
  /\ \E c \in Calls : calls[c].op = "byid" /\ Failed(c)

\* C10: RedisCache.get and RedisCache.set never raise when the store is
\* unavailable: get returns absent, set returns the failure flag and leaves
\* the stored entries unchanged; with the store available, get returns the
\* payload last set under the key while it is unexpired.
C10_CacheNeverRaises ==
  \A c \in Calls :
    /\ calls[c].exc \notin RedisErrors
    /\ (ReadThrough(c) /\ ~calls[c].avail) => calls[c].cached = NoCached
    /\ (calls[c].write.do /\ ~calls[c].write.avail) =>
         ~calls[c].write.ok /\ calls[c].write.kept
    /\ \A d \in Calls :
         (/\ ReadThrough(c) /\ calls[c].avail
          /\ LastSetBefore(d, c)
          /\ calls[c].t0 < calls[d].write.at + calls[d].write.ttl) =>
           calls[c].cached = [some |-> TRUE, text |-> calls[d].write.text]

C10_Witness ==
  /\ \E c \in Calls : ReadThrough(c) /\ ~calls[c].avail /\ calls[c].held.some
  /\ \E c, d \in Calls :
       /\ ReadThrough(c) /\ calls[c].avail /\ LastSetBefore(d, c)
       /\ calls[c].t0 < calls[d].write.at + calls[d].write.ttl
       /\ calls[c].t0 > calls[d].write.at

\* C11: once a connection attempt on the RedisCache handle has failed, the
\* handle stays degraded: every later get returns absent, every later set
\* returns the failure flag and no reconnection is attempted, also when the
\* server has become reachable again.
C11_DegradedForLifetime ==
  \A d, c \in Calls :
    (calls[d].conn = "failed" /\ ReadThrough(c) /\ calls[d].b <= calls[c].b) =>
      /\ calls[d].b < calls[c].b =>
           /\ calls[c].cached = NoCached
           /\ calls[c].conn # "connected"
      /\ calls[c].write.do => ~calls[c].write.ok

\* the catalog answered search_meals with a malformed response: a body that
\* is not valid JSON, or JSON that is not an object with a `meals` list
Malformed(c) ==
  /\ calls[c].response.kind = "body"
  /\ ~(/\ calls[c].response.body.fmt = "json"
       /\ calls[c].response.body.val.j = "dict"
       /\ DictGet(calls[c].response.body.val, "meals").j = "list")

\* C16: for a non-empty query that misses the cache, search_meals returns an
\* empty list and raises nothing whenever the catalog call ends in a network
\* failure or in a malformed response.
C16_SearchFaultReturnsEmpty ==
  \A c \in Calls :
    (/\ calls[c].op = "search" /\ calls[c].query # <<>>
     /\ Done(c) /\ Uses(c, "http")
     /\ Failed(c) \/ Malformed(c)) =>
      /\ calls[c].exc = "none"
      /\ calls[c].val = EmptyList

\* the part of C16 the code does satisfy: network failures and a null `meals`
C16_HandledFaults ==
  \A c \in Calls :
    (/\ calls[c].op = "search" /\ calls[c].query # <<>>
     /\ Done(c) /\ Uses(c, "http")
     /\ Failed(c) \/ (Malformed(c) /\ calls[c].response.body.fmt = "json")) =>
      /\ calls[c].exc = "none"
      /\ calls[c].val = EmptyList

\* C17: search_meals called with an empty query returns an empty list, raises
\* nothing, and makes no catalog call, no cache get and no cache set.
C17_EmptyQueryTouchesNothing ==
  \A c \in Calls :
    (calls[c].op = "search" /\ calls[c].query = <<>>) =>
      /\ Done(c)
      /\ calls[c].b = calls[c].e
      /\ calls[c].exc = "none"
      /\ calls[c].val = EmptyList
      /\ ~Uses(c, "get") /\ ~Uses(c, "http") /\ ~Uses(c, "set")
      /\ calls[c].conn = "none"
      /\ calls[c].cached = NoCached
      /\ calls[c].response = NoResponse
      /\ ~calls[c].write.do

\* an empty-query call made while the server holds a live entry and could
\* have been asked
C17_Witness ==
  \E c \in Calls :
    /\ calls[c].op = "search" /\ calls[c].query = <<>> /\ Done(c)
    /\ redisUp
    /\ \E k \in Keys : Live(store[k], now)

\* the catalog answered with a non-empty list of meal objects
AnsweredMeals(c) ==
  /\ Answered(c)
  /\ Uses(c, "http")
  /\ MealsOf(c).j = "list"
  /\ MealsOf(c).items # <<>>
  /\ \A i \in 1..Len(MealsOf(c).items) : MealsOf(c).items[i].j = "dict"

\* C20: when an otherwise successful catalog response contains a meal whose
\* expected fields are missing or null, the operation still returns a Record
\* for that meal (one per meal for search) instead of failing.
C20_SparseMealStillARecord ==
  \A c \in Calls :
    AnsweredMeals(c) =>
      /\ calls[c].exc = "none"
      /\ IF calls[c].op = "search"
         THEN /\ calls[c].val.j = "list"
              /\ Len(calls[c].val.items) = Len(MealsOf(c).items)
              /\ \A i \in 1..Len(calls[c].val.items) : calls[c].val.items[i].j = "Recipe"
         ELSE calls[c].val.j = "Recipe"

\* the slot's field is present and non-blank
NonBlank(v) == v.j = "str" /\ Strip(v.s) # <<>>

Ingredient(i) == DictGet(meal, IngredientKey(i))
Measure(i) == DictGet(meal, MeasureKey(i))

\* the slots that yield a line, and the place of slot i among them
Filled == {i \in 1..20 : NonBlank(Ingredient(i))}
Rank(i) == Cardinality({k \in Filled : k <= i})

\* the line claimed for slot i, the texts taken without surrounding blanks
LineOf(i) ==
  IF NonBlank(Measure(i))
  THEN Strip(Measure(i).s) \o <<" ">> \o Strip(Ingredient(i).s)
  ELSE Strip(Ingredient(i).s)

Transformed == recipe # NoResult
InstructionsGiven == DictGetDefault(meal, "strInstructions", PyStr(<<>>))

\* C18: the transformation yields, for slots 1..20 in increasing order, one
\* ingredient line per slot whose ingredient is present and non-blank:
\* "<measure> <ingredient>" when the measure is non-blank too, "<ingredient>"
\* alone when the measure is blank or absent; a slot whose ingredient is blank
\* or absent yields no line, whatever its measure.
C18_IngredientLines ==
  (Transformed /\ InstructionsGiven.j = "str") =>
    /\ recipe.ok
    /\ Len(recipe.val.ingredients) = Cardinality(Filled)
    /\ \A i \in Filled : recipe.val.ingredients[Rank(i)] = LineOf(i)

\* the first and the last slot yield a line, the first with its measure and
\* the last without; the second, a measure without an ingredient, yields none
C18_Witness ==
  /\ Transformed /\ recipe.ok
  /\ Filled = {1, 20}
  /\ NonBlank(Measure(1))
  /\ Measure(20).j = "str" /\ ~NonBlank(Measure(20))
  /\ Ingredient(2).j = "str" /\ NonBlank(Measure(2))
  /\ Len(recipe.val.ingredients) = 2

HasCRLF(t) == \E i \in 1..(Len(t) - 1) : t[i] = "CR" /\ t[i + 1] = "LF"
IsNonBlankLine(l) == Strip(l) # <<>>

\* the non-blank lines of the instructions text, as they stand in it
NonBlankLines(t) == SelectSeq(SplitCRLF(t), IsNonBlankLine)

Placeholder == StrOf("No instructions available")

\* what C19 says of every instructions text: one step per non-blank line in
\* order (each line without its surrounding whitespace); without such a line
\* the raw text, or the placeholder when the text is empty; never no step
StepsFromLines(t, steps) ==
  /\ steps # <<>>
  /\ NonBlankLines(t) # <<>> =>
       /\ Len(steps) = Len(NonBlankLines(t))
       /\ \A i \in 1..Len(steps) : steps[i] = Strip(NonBlankLines(t)[i])
  /\ NonBlankLines(t) = <<>> =>
       steps = (IF t # <<>> THEN <<t>> ELSE <<Placeholder>>)

Combined == request.q.some /\ request.q.s # <<>>

Contains(text, sub) ==
  \E i \in 0..(Len(text) - Len(sub)) : SubSeq(text, i + 1, i + Len(sub)) = sub

\* the repository's records, in its order, whose title contains the query
\* when letter case is ignored
RECURSIVE TitleMatches(_, _)
TitleMatches(rows, q) ==
  IF rows = <<>> THEN <<>>
  ELSE (IF Contains(Lower(Head(rows).title), Lower(q)) THEN <<Head(rows)>> ELSE <<>>)
         \o TitleMatches(Tail(rows), q)

\* a record as it appears in the response, without a CacheInfo of its own
AsResponse(r) ==
  [j |-> "RecipeResponse", id |-> r.id, title |-> r.title,
   ingredients |-> r.ingredients, steps |-> r.steps, prepTime |-> r.prepTime,
   cookTime |-> r.cookTime, difficulty |-> r.difficulty, cuisine |-> r.cuisine,
   source |-> r.source, cache_info |-> None]
AsResponses(records) == [i \in 1..Len(records) |-> AsResponse(records[i])]

\* the request has been answered: search_recipes returned its response, or
\* raised and the client got the error response
Answer == request.pc \in {"returned", "raised"}

\* the record list is the internal matches in repository order, then the
\* external results in catalog order
MergedInOrder ==
  /\ request.body.recipes =
       AsResponses(TitleMatches(SampleData, request.q.s) \o calls[ExternalLeg].val.items)
  /\ SucceededNonEmpty(ExternalLeg) =>
       \A i \in 1..Len(MealsOf(ExternalLeg).items) :
         request.body.recipes[Len(TitleMatches(SampleData, request.q.s)) + i].title
           = transform_meal_to_recipe(MealsOf(ExternalLeg).items[i]).val.title

\* C12: the response to a combined search is produced only after both the
\* repository search and the cached external search have completed, and its
\* record list is the internal results in repository order followed by the
\* external results in catalog order, whichever leg finished first.
C12_JoinedInOrder ==
  (Answer /\ Combined) =>
    /\ request.internal.done
    /\ Done(ExternalLeg)
    /\ request.pc = "returned" => MergedInOrder

\* what holds of C12: a response that search_recipes returns comes after both
\* legs and lists the internal records before the external ones
C12_ReturnedJoinedInOrder ==
  (request.pc = "returned" /\ Combined) =>
    /\ request.internal.done
    /\ Done(ExternalLeg)
    /\ calls[ExternalLeg].query = request.q.s
    /\ MergedInOrder

\* two internal and two external records, the external leg done first
C12_ExternalFirst ==
  /\ request.pc = "returned" /\ Combined
  /\ Len(request.internal.val) = 2
  /\ SucceededNonEmpty(ExternalLeg) /\ Len(calls[ExternalLeg].val.items) = 2
  /\ calls[ExternalLeg].e < request.internal.e
  /\ Len(request.body.recipes) = 4

\* C13: a combined search with an empty or absent query returns an empty
\* record list with no CacheInfo, and performs no repository search, no cache
\* get or set and no catalog call.
C13_MissingQueryShortCircuits ==
  (request.pc # "idle" /\ ~Combined) =>
    /\ request.pc = "returned"
    /\ request.body.recipes = <<>>
    /\ request.body.mealdb_cache_info = None
    /\ ~request.internal.done
    /\ \A c \in Calls : calls[c] = IdleCall
    /\ client = "None"
    /\ seq = 0

\* an empty query answered while the server holds a live entry
C13_Witness ==
  /\ request.pc = "returned"
  /\ request.q = SomeQuery(<<>>)
  /\ redisUp
  /\ \E k \in Keys : Live(store[k], now)

\* the catalog could not be reached: no connection, or no answer in time
Unreachable(c) == Failed(c) /\ calls[c].response.exc \in {"ConnectError", "ReadTimeout"}

\* C14: for a non-empty query with no cache entry and the catalog
\* unreachable, the combined search raises nothing and returns exactly the
\* internal matches, an empty external contribution and an aggregate
\* CacheInfo with hit = false and source = api.
C14_CatalogDownServesInternal ==
  (Combined /\ Unreachable(ExternalLeg) /\ ~calls[ExternalLeg].held.some) =>
    /\ calls[ExternalLeg].exc = "none"
    /\ calls[ExternalLeg].val = EmptyList
    /\ request.pc # "raised"
    /\ request.pc = "returned" =>
         /\ request.body.recipes = AsResponses(TitleMatches(SampleData, request.q.s))
         /\ request.body.mealdb_cache_info = SomeInfo(CacheInfo(FALSE, "api"))

\* a query in other letter case than the one title it matches, the server
\* reachable and without an entry, the connection to the catalog refused
C14_Witness ==
  /\ request.pc = "returned" /\ Combined
  /\ Unreachable(ExternalLeg) /\ calls[ExternalLeg].response.exc = "ConnectError"
  /\ calls[ExternalLeg].avail /\ ~calls[ExternalLeg].held.some
  /\ Len(request.body.recipes) = 1
  /\ request.body.recipes[1].title = <<"B", " ", "a">>
  /\ request.q.s = <<" ", "A">>

\* C15: the response to a combined search carries exactly one aggregate
\* CacheInfo, the one the external leg's search_meals returned, and no
\* record of the merged list carries a CacheInfo.
C15_SingleAggregateInfo ==
  (request.pc = "returned" /\ Combined) =>
    /\ DOMAIN request.body = {"recipes", "mealdb_cache_info"}
    /\ request.body.mealdb_cache_info.some
    /\ request.body.mealdb_cache_info.v = calls[ExternalLeg].info
    /\ calls[ExternalLeg].info \in {CacheInfo(TRUE, "cache"), CacheInfo(FALSE, "api")}
    /\ \A i \in 1..Len(request.body.recipes) : request.body.recipes[i].cache_info = None

\* internal and cached external records in one response, the aggregate
\* CacheInfo reporting the hit
C15_Witness ==
  /\ request.pc = "returned" /\ Combined
  /\ request.body.mealdb_cache_info = SomeInfo(CacheInfo(TRUE, "cache"))
  /\ request.internal.val # <<>>
  /\ calls[ExternalLeg].val.items # <<>>
  /\ Len(request.body.recipes) = Len(request.internal.val) + Len(calls[ExternalLeg].val.items)

\* ---------------------------------------------------------------------- C21
\* the call missed, the catalog answered with a non-empty result and the call
\* issued the cache.set of the success path
MissSuccess(c) == SucceededNonEmpty(c) /\ calls[c].path = "success" /\ calls[c].write.do

\* d is a call of the same operation whose cache.get returned the payload
\* that c wrote
ReadsPayloadOf(d, c) ==
  /\ d # c
  /\ Started(d)
  /\ calls[d].op = calls[c].op
  /\ calls[d].cached.some
  /\ calls[d].cached.text = calls[c].write.text

\* C21: the payload a miss-success writes (for a non-empty search result and
\* for a by-id Record) deserializes on a read to a result equal to the one the
\* miss returned: the read is a hit and returns the same identifiers, titles,
\* provenance, ingredients and steps in the same order.
C21_PayloadRoundTrip ==
  \A c, d \in Calls :
    (MissSuccess(c) /\ ReadsPayloadOf(d, c)) =>
      /\ calls[d].path = "hit"
      /\ calls[d].exc = "none"
      /\ calls[d].val = calls[c].val
      /\ IF calls[c].op = "search"
         THEN /\ Len(calls[d].val.items) = Len(calls[c].val.items)
              /\ \A i \in 1..Len(calls[c].val.items) :
                   /\ calls[d].val.items[i].id = calls[c].val.items[i].id
                   /\ calls[d].val.items[i].source = StrOf("mealdb")
         ELSE calls[d].val.source = StrOf("mealdb")

C21_Witness ==
  \E c, d \in Calls :
    /\ MissSuccess(c) /\ ReadsPayloadOf(d, c) /\ calls[c].op = "search"
    /\ LastSetBefore(c, d)
    /\ Len(calls[c].val.items) = 2

\* the by-id case of C21 happens as well
C21_LookupRoundTrip ==
  \E c, d \in Calls :
    /\ MissSuccess(c) /\ ReadsPayloadOf(d, c) /\ calls[c].op = "byid"
    /\ LastSetBefore(c, d)

\* ---------------------------------------------------------------------- C22
\* C22: after any sequence of create, update, combined search and external
\* by-id lookup operations every record the repository holds has provenance
\* internal: what update and create store and return is internal also when
\* the body carries the provenance of a catalog record, and the records the
\* catalog returned are not among the repository's.
C22_RepositoryHoldsInternalOnly ==
  /\ \A i \in 1..Len(repo.rows) : repo.rows[i].source = StrOf("internal")
  /\ \A i \in 1..Len(history) :
       /\ history[i].ret # PyNone => history[i].ret.source = StrOf("internal")
       /\ \A k \in 1..Len(history[i].after) : history[i].after[k].source = StrOf("internal")
  /\ \A c \in Calls :
       (Done(c) /\ calls[c].op = "byid" /\ calls[c].val # PyNone) =>
         \A i \in 1..Len(repo.rows) : repo.rows[i] # calls[c].val
  /\ \A c \in Calls :
       (Done(c) /\ calls[c].op = "search") =>
         \A i \in 1..Len(repo.rows), k \in 1..Len(calls[c].val.items) :
           repo.rows[i] # calls[c].val.items[k]

C22_Witness ==
  /\ request.pc = "returned"
  /\ \E k \in 1..Len(request.body.recipes) : request.body.recipes[k].source = StrOf("mealdb")
  /\ \E c \in Calls : Done(c) /\ calls[c].op = "byid" /\ calls[c].val # PyNone
  /\ \E i, k \in 1..Len(history) :
       /\ history[i].op = "update" /\ history[i].status = 200
       /\ history[k].op = "create" /\ history[k].status = 201
       /\ history[i].request.f["title"] = BodyFromCatalog.f["title"]
       /\ history[k].request.f["title"] = BodyFromCatalog.f["title"]

\* ---------------------------------------------------------------------- C23
\* the i-th operation is a create that returned a record
Created(i) == history[i].op = "create" /\ history[i].status = 201

IdsOf(rows) == {rows[k].id : k \in 1..Len(rows)}

\* C23: in a sequential history every create returns a record whose
\* identifier differs from the identifier of every record already in the
\* repository and is strictly greater than every identifier an earlier create
\* returned.
C23_CreateAssignsFreshId ==
  \A i \in 1..Len(history) :
    Created(i) =>
      /\ history[i].ret.id.j = "int"
      /\ history[i].ret.id \notin IdsOf(history[i].before)
      /\ history[i].response.id = history[i].ret.id
      /\ \A k \in 1..(i - 1) : Created(k) => history[k].ret.id.n < history[i].ret.id.n

C23_Witness ==
  /\ Len(history) = 3
  /\ Created(1) /\ Created(3)
  /\ history[2].op = "update" /\ history[2].status = 200
  /\ history[2].recipe_id = history[1].ret.id.n

\* ---------------------------------------------------------------------- C24
\* the i-th operation is an update whose body validated
Updated(i) == history[i].op = "update" /\ history[i].request # PyNone

Known(i) == PyInt(history[i].recipe_id) \in IdsOf(history[i].before)

\* C24: update with an identifier that no repository record has returns
\* absent, the endpoint answers not found, and the repository contents are
\* unchanged: no record is created or modified.
C24_UpdateUnknownIdIsNoOp ==
  \A i \in 1..Len(history) :
    (Updated(i) /\ ~Known(i)) =>
      /\ history[i].ret = PyNone
      /\ history[i].status = 404
      /\ history[i].after = history[i].before

C24_Witness ==
  \E i, k \in 1..Len(history) :
    /\ Updated(i) /\ ~Known(i) /\ history[i].recipe_id = 9
    /\ Created(k) /\ k < i
    /\ Len(history[i].before) = 5

\* ---------------------------------------------------------------------- C25
\* C25: update on an existing record returns a record with the same
\* identifier and exactly the given fields; a get_by_id of the identifier
\* right after it returns that record, the number of records is unchanged and
\* every record with another identifier is unchanged.
C25_UpdateReplacesOneRecord ==
  \A i \in 1..Len(history) :
    (Updated(i) /\ Known(i)) =>
      /\ history[i].status = 200
      /\ history[i].ret.id = PyInt(history[i].recipe_id)
      /\ \A f \in RequestFields : model_dump(history[i].ret).f[f] = history[i].request.f[f]
      /\ history[i].response.id = history[i].ret.id
      /\ history[i].response.title = history[i].request.f["title"].s
      /\ Len(history[i].after) = Len(history[i].before)
      /\ \A k \in 1..Len(history[i].before) :
           history[i].after[k] = (IF history[i].before[k].id = PyInt(history[i].recipe_id)
                                  THEN history[i].ret ELSE history[i].before[k])
      /\ (i < Len(history) /\ history[i + 1].op = "get_by_id"
            /\ history[i + 1].recipe_id = history[i].recipe_id) =>
           /\ history[i + 1].ret = history[i].ret
           /\ history[i + 1].status = 200

C25_Witness ==
  /\ Len(history) = 3
  /\ Created(1)
  /\ Updated(2) /\ Known(2) /\ history[2].recipe_id = 5
  /\ history[2].request.f["title"] # history[1].request.f["title"]
  /\ history[3].op = "get_by_id" /\ history[3].recipe_id = 5

\* ---------------------------------------------------------------------- C27
\* the i-th operation is a search_by_title
Searched(i) == history[i].op = "search"

\* the records of rows, in their order, whose title contains the query as a
\* substring when letter case is ignored; none for the empty query
Expected(rows, q) == IF q = <<>> THEN <<>> ELSE TitleMatches(rows, q)

\* C27: search_by_title returns, in repository order, exactly the stored
\* records whose title contains the query as a substring when letter case is
\* ignored, and the empty list for an empty query.
C27_SearchIsSubstringMatch ==
  \A i \in 1..Len(history) :
    Searched(i) =>
      /\ history[i].list = Expected(history[i].before, history[i].query)
      /\ history[i].after = history[i].before

\* the same for the in-memory repository only
C27_InMemorySearchIsSubstringMatch ==
  repo.impl = "memory" => C27_SearchIsSubstringMatch

\* the same for queries without the LIKE wildcards % and _
C27_PlainQueriesMatch ==
  \A i \in 1..Len(history) :
    (Searched(i) /\ \A k \in 1..Len(history[i].query) : history[i].query[k] \notin {"%", "_"}) =>
      history[i].list = Expected(history[i].before, history[i].query)

\* ---------------------------------------------------------------------- C26
\* the operation right after the i-th
Then(i, name) == i < Len(history) /\ history[i + 1].op = name

\* the records of rows other than r whose title contains q when letter case
\* is ignored
OthersWith(rows, r, q) ==
  {k \in 1..Len(rows) : rows[k] # r /\ Contains(Lower(rows[k].title), Lower(q))}

\* C26: right after create has returned a record with identifier i and title
\* t, get_by_id(i) returns that record, get_all contains it, and a search by
\* a non-empty substring of t includes it; when no other stored title
\* contains the substring the search returns exactly that one record.
C26_ReadYourWrites ==
  \A i \in 1..Len(history) :
    Created(i) =>
      LET new == history[i].ret
          next == history[i + 1]
      IN /\ (Then(i, "get_by_id") /\ PyInt(next.recipe_id) = new.id) =>
              next.ret = new /\ next.status = 200
         /\ Then(i, "get_all") =>
              /\ \E k \in 1..Len(next.list) : next.list[k] = new
              /\ \E k \in 1..Len(next.response.items) : next.response.items[k].id = new.id
         /\ (Then(i, "search") /\ next.query # <<>> /\ Contains(new.title, next.query)) =>
              /\ \E k \in 1..Len(next.list) : next.list[k] = new
              /\ OthersWith(next.before, new, next.query) = {} => next.list = <<new>>

\* the same for the in-memory repository only
C26_InMemoryReadYourWrites == repo.impl = "memory" => C26_ReadYourWrites

\* the cases of C26 happen under the in-memory repository
C26_InMemoryCases ==
  /\ repo.impl = "memory"
  /\ Len(history) = 2 /\ Created(1)
  /\ history[2].op = "search" /\ history[2].query = <<"_">>
  /\ history[2].list = <<history[1].ret>>

\* the same when no search uses the LIKE wildcard _
C26_PlainQueriesReadYourWrites ==
  (\A i \in 1..Len(history) : history[i].query # <<"_">>) => C26_ReadYourWrites

\* ---------------------------------------------------------------------- C28
\* what the cached block of the call made of the payload its cache.get
\* returned, and what its fetch block made of the response to its own request
LookOf(c) ==
  IF calls[c].op = "search" THEN search_cached(calls[c].cached) ELSE meal_cached(calls[c].cached)
FetchOf(c) ==
  IF calls[c].op = "search" THEN search_fetch(calls[c].response) ELSE meal_fetch(calls[c].response)

\* the call observed a miss
Missed(c) == ReadThrough(c) /\ LookOf(c).path = "miss"

\* c2 started while c1 was waiting for the catalog
Racing(c1, c2) ==
  /\ c1 # c2
  /\ calls[c1].key = calls[c2].key
  /\ Missed(c1) /\ Missed(c2)
  /\ Done(c1) /\ Done(c2)
  /\ calls[c1].b < calls[c2].b
  /\ calls[c2].b < calls[c1].e

\* C28: two concurrent read-through calls with the same key that both observe
\* a miss are not deduplicated: each makes its own catalog request and issues
\* the cache set its own response calls for, each returns the result of its
\* own request, and the entry ends up as the payload of the set executed last.
C28_RacingMissesNotDeduplicated ==
  \A c1, c2 \in Calls :
    Racing(c1, c2) =>
      \A c \in {c1, c2} :
        /\ Uses(c, "http")
        /\ calls[c].response # NoResponse
        /\ calls[c].path = FetchOf(c).path
        /\ calls[c].exc = FetchOf(c).exc
        /\ calls[c].val = FetchOf(c).val
        /\ calls[c].info = FetchOf(c).info
        /\ calls[c].write.do = FetchOf(c).write.do
        /\ calls[c].write.do => calls[c].write.text = FetchOf(c).write.text
        /\ (calls[c].write.ok /\ LastWriter(c)) =>
             store[calls[c].key] =
               Entry(calls[c].write.text, calls[c].write.at + calls[c].write.ttl)

C28_Witness ==
  \E c1, c2 \in Calls :
    /\ Racing(c1, c2)
    /\ calls[c1].write.ok /\ calls[c2].write.ok
    /\ calls[c2].e < calls[c1].e
    /\ calls[c1].write.text # calls[c2].write.text
    /\ calls[c1].val # calls[c2].val
    /\ store[calls[c1].key].text = calls[c1].write.text

\* ---------------------------------------------------------------------- C29
\* a step changes the entry under a key only by the cache.set of a call for
\* that key, as that call returns
OwnKeyOnly ==
  \A k \in Keys :
    store'[k] # store[k] =>
      \E c \in Calls :
        /\ calls[c].pc = "waiting" /\ calls'[c].pc = "done"
        /\ calls[c].key = k
        /\ calls'[c].write.ok /\ calls'[c].write.key = k
        /\ store'[k].text = calls'[c].write.text

\* what the call returned is what its cached block makes of the payload its
\* cache.get found under its key, or else what its fetch block makes of the
\* response to its own request
OwnResult(c) ==
  /\ calls[c].cached = (IF calls[c].conn # "failed" /\ calls[c].avail
                        THEN calls[c].held ELSE NoCached)
  /\ IF LookOf(c).path = "miss"
     THEN /\ calls[c].path = FetchOf(c).path /\ calls[c].val = FetchOf(c).val
          /\ calls[c].exc = FetchOf(c).exc /\ calls[c].info = FetchOf(c).info
     ELSE /\ calls[c].path = LookOf(c).path /\ calls[c].val = LookOf(c).val
          /\ calls[c].exc = LookOf(c).exc /\ calls[c].info = LookOf(c).info
          /\ calls[c].response = NoResponse

\* C29: a read-through call reads and writes only its own cache key: under
\* any interleaving of concurrent calls no step changes the entry under a key
\* other than the key of the call that returns in it, and the result of a
\* call depends only on the entry under its key and on its own catalog
\* request.
C29_OwnKeyOnly ==
  /\ [][OwnKeyOnly]_vars
  /\ [](\A c \in Calls : (ReadThrough(c) /\ Done(c)) => OwnResult(c))

\* two calls with different keys of the same namespace ran concurrently,
\* one wrote its key while the entry under the other's key stayed as found
C29_Witness ==
  \E c1, c2 \in Calls :
    /\ calls[c1].op = calls[c2].op
    /\ calls[c1].key # calls[c2].key
    /\ Done(c1) /\ Done(c2)
    /\ calls[c1].b < calls[c2].b /\ calls[c2].b < calls[c1].e
    /\ calls[c1].write.ok
    /\ calls[c2].info.hit
    /\ store[calls[c2].key].text = calls[c2].held.text
    /\ store[calls[c1].key].text = calls[c1].write.text
    /\ calls[c1].write.text # calls[c2].held.text

\* ---------------------------------------------------------------------- C30
\* C30: cache keys are injective on the normalized input within a namespace
\* and the namespaces are disjoint: two search queries get the same key only
\* if their trimmed, lower-cased forms are equal, two by-id lookups get the
\* same key only if their identifiers are equal, and no search key equals a
\* by-id key.
C30_KeysInjective ==
  \A c1, c2 \in Calls :
    (ReadThrough(c1) /\ ReadThrough(c2)) =>
      /\ (calls[c1].op = "search" /\ calls[c2].op = "search"
            /\ calls[c1].key = calls[c2].key) =>
           Strip(Lower(calls[c1].query)) = Strip(Lower(calls[c2].query))
      /\ (calls[c1].op = "byid" /\ calls[c2].op = "byid"
            /\ calls[c1].key = calls[c2].key) =>
           calls[c1].meal_id = calls[c2].meal_id
      /\ calls[c1].op # calls[c2].op => calls[c1].key # calls[c2].key

\* a search for the digits of an identifier next to the lookup of that
\* identifier: each has written its own entry
C30_Witness ==
  \E c1, c2 \in Calls :
    /\ calls[c1].op = "search" /\ calls[c2].op = "byid"
    /\ calls[c1].query = IntToStr(calls[c2].meal_id)
    /\ calls[c1].write.ok /\ calls[c2].write.ok
    /\ store[calls[c1].key].text = calls[c1].write.text
    /\ store[calls[c2].key].text = calls[c2].write.text
    /\ calls[c1].write.text # calls[c2].write.text

\* the other cases of C30 happen as well: searches with different normal
\* forms, and lookups of different identifiers, under different keys
C30_DistinctInputs ==
  \E c1, c2 \in Calls :
    /\ calls[c1].op = calls[c2].op /\ ReadThrough(c1) /\ ReadThrough(c2)
    /\ calls[c1].key # calls[c2].key
    /\ calls[c1].meal_id # calls[c2].meal_id \/ calls[c1].query # calls[c2].query

\* ---------------------------------------------------------------------- C31
\* the position in the call's sequence of steps at which it read the clock
\* for response_time_ms; start_time is read before the first step
TimerAt(c) == CHOOSE i \in 1..Len(calls[c].ops) : calls[c].ops[i] = "timer"

\* the call returned a CacheInfo after asking the cache
Timed(c) == ReadThrough(c) /\ Done(c) /\ calls[c].info # NoInfo

\* C31: the duration in CacheInfo is measured from before the cache get to the
\* return point of the branch taken: the cache get, the catalog request and,
\* on a miss, the cache set of the branch all come before the clock is read
\* for the duration.
C31_DurationCoversStoreAccesses ==
  \A c \in Calls :
    Timed(c) =>
      /\ Uses(c, "timer")
      /\ \A i \in 1..Len(calls[c].ops) :
           calls[c].ops[i] \in {"get", "http", "set"} => i < TimerAt(c)

\* what the code does: the cache get and the catalog request are inside the
\* measured interval, a cache set comes after its end
C31_DurationCoversGetAndRequest ==
  \A c \in Calls :
    Timed(c) =>
      /\ Uses(c, "timer")
      /\ \A i \in 1..Len(calls[c].ops) :
           /\ calls[c].ops[i] \in {"get", "http"} => i < TimerAt(c)
           /\ calls[c].ops[i] = "set" => i > TimerAt(c)

\* a miss that wrote its result to the cache
C31_MissWithSet ==
  \E c \in Calls : Timed(c) /\ Uses(c, "set") /\ calls[c].write.ok

\* ---------------------------------------------------------------------- C32
\* the call returned a CacheInfo
Informed(c) == Done(c) /\ calls[c].info # NoInfo

\* C32: in every CacheInfo search_meals or get_meal_by_id returns, on every
\* path including the empty-query path, hit is true exactly when source is
\* "cache" and false exactly when source is "api".
C32_HitIffSourceCache ==
  \A c \in Calls :
    Informed(c) =>
      /\ calls[c].info.source \in {"cache", "api"}
      /\ calls[c].info.hit <=> calls[c].info.source = "cache"
      /\ ~calls[c].info.hit <=> calls[c].info.source = "api"

\* what the code does: hit and source agree in every call that asked the
\* cache, and the empty query returns hit = false with source = "cache"
C32_ReadThroughHitIffSourceCache ==
  \A c \in Calls :
    Informed(c) =>
      IF ReadThrough(c)
      THEN /\ calls[c].info.source \in {"cache", "api"}
           /\ calls[c].info.hit <=> calls[c].info.source = "cache"
      ELSE calls[c].info = CacheInfo(FALSE, "cache")

\* each kind of CacheInfo is returned: a hit, a miss and the empty query
C32_EveryPath ==
  \E c1, c2 \in Calls :
    /\ Informed(c1) /\ ReadThrough(c1) /\ calls[c1].info.hit
    /\ Informed(c2) /\ ~ReadThrough(c2)

\* ---------------------------------------------------------------------- C33
\* the identifiers of the stored records, in storage order
StoredIds == [i \in 1..Len(repo.rows) |-> repo.rows[i].id.n]

\* C33: under concurrent create calls on the in-memory repository no two
\* stored records share an identifier and no identifier is skipped or reused,
\* for every interleaving of the read of the counter, the append and the
\* increment: the stored identifiers are 1, 2, 3, ... without gap or repeat.
C33_ConcurrentCreateIds ==
  /\ \A i, k \in 1..Len(repo.rows) : i # k => StoredIds[i] # StoredIds[k]
  /\ {StoredIds[i] : i \in 1..Len(repo.rows)} = 1..Len(repo.rows)

\* what the code guarantees: a create that runs alone, from its first
\* statement to its return, acts as memory_create does
C33_CreateAlone ==
  \A w \in Workers :
    (workers[w].pc = "returned" /\ \A v \in Workers \ {w} : workers[v].pc = "idle") =>
      /\ C33_ConcurrentCreateIds
      /\ \E body \in Bodies :
           RecipeRequest(body).ok /\
           repo = memory_create(InMemoryRecipeRepository, RecipeRequest(body).val).repo

\* two creates overlapped and stored records with the same identifier
C33_SharedId ==
  \E w1, w2 \in Workers :
    /\ w1 # w2
    /\ workers[w1].pc = "returned" /\ workers[w2].pc = "returned"
    /\ workers[w1].new_recipe.id = workers[w2].new_recipe.id

\* an identifier was skipped: a record is stored beyond a gap
C33_SkippedId ==
  \E i \in 1..Len(repo.rows) :
    StoredIds[i] > 1 /\ \A k \in 1..Len(repo.rows) : StoredIds[k] # StoredIds[i] - 1

\* ---------------------------------------------------------------------- C34
\* the lookup stored a Record under its key
StoredRecord(c) ==
  /\ calls[c].op = "byid" /\ Done(c)
  /\ calls[c].path = "success"
  /\ calls[c].write.ok
  /\ calls[c].write.text = json_dumps(model_dump(calls[c].val))

\* the lookup d replaced the unexpired Record c had stored with the negative
\* marker
Replaces(d, c) ==
  /\ c # d
  /\ StoredRecord(c)
  /\ calls[d].op = "byid" /\ Done(d)
  /\ calls[d].key = calls[c].key
  /\ calls[d].write.ok
  /\ calls[d].write.text = json_dumps(PyNone)
  /\ calls[c].e < calls[d].e
  /\ calls[d].write.at < calls[c].write.at + calls[c].write.ttl

\* C34 as stated: once a by-id lookup has stored a Record under a key, no
\* lookup for the same key, including one running concurrently that observed
\* the earlier miss and whose catalog call failed, replaces that entry with a
\* negative marker before it expires.
C34_RecordNotReplaced == \A c, d \in Calls : ~Replaces(d, c)

\* C34 as amended: a lookup replaces the unexpired Record another lookup has
\* stored under its key with a negative marker only if its own cache get did
\* not return that Record (it asked the cache before the Record was stored, or
\* its cache get was not answered) and its catalog call failed or found no
\* match; the set executed last wins.
C34_ReplacedOnlyAfterOwnMiss ==
  \A c, d \in Calls :
    Replaces(d, c) =>
      /\ calls[d].b < calls[c].e \/ ~calls[d].cached.some
      /\ calls[d].cached.some => calls[d].cached.text # calls[c].write.text
      /\ calls[d].path \in {"failure", "negative"}
      /\ LastWriter(d) =>
           store[calls[d].key] = Entry(json_dumps(PyNone), calls[d].write.at + calls[d].write.ttl)

\* a lookup that ran concurrently, observed the earlier miss and whose catalog
\* call failed has replaced the Record with the five-minute negative marker
C34_Witness ==
  \E c, d \in Calls :
    /\ Replaces(d, c)
    /\ calls[d].b < calls[c].e
    /\ Failed(d)
    /\ store[calls[d].key] = Entry(json_dumps(PyNone), calls[d].write.at + ERROR_TTL)

\* ---------------------------------------------------------------------- C35
\* the call found a payload it could not deserialize, went on to the
\* catalog, which answered with a result, and the cache store was reachable
\* when the call came to store it
Repairs(c) ==
  /\ FoundCorrupted(c)
  /\ SucceededNonEmpty(c) \/ SucceededNoMatch(c)
  /\ calls[c].write.avail

\* d is the next call with the key of c: it asked the cache, with the store
\* reachable, after c had returned and before the entry c wrote expired, and
\* no other call wrote the key in between
NextWithKey(d, c) ==
  /\ d # c
  /\ Started(d)
  /\ calls[d].op = calls[c].op
  /\ calls[d].avail /\ calls[d].conn # "failed"
  /\ LastSetBefore(c, d)
  /\ calls[d].t0 < calls[c].write.at + calls[c].write.ttl

\* C35: corrupted entries self-repair: with the cache store available, after
\* a read-through call that found an undeserializable payload under its key
\* and whose catalog call then succeeded, the entry under that key is a valid
\* payload of the fetched result, and the next call with that key before
\* expiry is a hit returning the same result.
C35_CorruptedEntrySelfRepairs ==
  \A c \in Calls :
    Repairs(c) =>
      /\ calls[c].exc = "none"
      /\ calls[c].write.ok
      /\ calls[c].write.text = Serialized(c)
      /\ WellShaped(calls[c].op, store[calls[c].key].text)
      /\ LastWriter(c) =>
           store[calls[c].key] = Entry(Serialized(c), calls[c].write.at + CACHE_TTL)
      /\ \A d \in Calls :
           NextWithKey(d, c) =>
             /\ calls[d].path = "hit"
             /\ calls[d].info = CacheInfo(TRUE, "cache")
             /\ calls[d].val = calls[c].val
             /\ ~Uses(d, "http")

\* text that is not JSON was replaced by the payload of a fetched Record or
\* list of Records, and the next call got it from the cache
C35_Witness ==
  \E c, d \in Calls :
    /\ Repairs(c)
    /\ calls[c].held.text = RawText
    /\ SucceededNonEmpty(c)
    /\ NextWithKey(d, c)
    /\ calls[d].info.hit
    /\ calls[d].val = calls[c].val
    /\ store[calls[c].key].text # RawText

\* the catalog reporting no match repairs the entry as well
C35_RepairedByNegative ==
  \E c, d \in Calls :
    /\ Repairs(c) /\ SucceededNoMatch(c) /\ NextWithKey(d, c) /\ calls[d].info.hit

\* ---------------------------------------------------------------------- C36
\* the positions in the call's sequence of steps at which it did `what`
Positions(c, what) == {i \in 1..Len(calls[c].ops) : calls[c].ops[i] = what}

\* C36: every read-through call with a non-empty input performs exactly one
\* cache get, at most one catalog request and at most one cache set, in that
\* order: the request is made only after a get that returned nothing or a
\* payload that does not deserialize, and a set is issued only after the
\* request of the same call has finished.
C36_OneGetOneRequestOneSet ==
  \A c \in Calls :
    ReadThrough(c) =>
      /\ Positions(c, "get") = {1}
      /\ Cardinality(Positions(c, "http")) <= 1
      /\ Cardinality(Positions(c, "set")) <= 1
      /\ Uses(c, "http") =>
           /\ Done(c)
           /\ calls[c].response # NoResponse
           /\ ~calls[c].cached.some \/ ~WellShaped(calls[c].op, calls[c].cached.text)
      /\ calls[c].pc = "waiting" =>
           ~calls[c].cached.some \/ ~WellShaped(calls[c].op, calls[c].cached.text)
      /\ calls[c].write.do <=> Uses(c, "set")
      /\ \A i \in Positions(c, "set") : \E k \in Positions(c, "http") : k < i

\* a call went through all three steps after a get that returned a payload
\* that does not deserialize, next to a call that stopped after its get
C36_Witness ==
  \E c, d \in Calls :
    /\ ReadThrough(c) /\ Done(c)
    /\ calls[c].cached.some
    /\ calls[c].ops = <<"get", "http", "timer", "set">>
    /\ calls[c].write.ok
    /\ ReadThrough(d) /\ Done(d)
    /\ calls[d].ops = <<"get", "timer">>

\* ---------------------------------------------------------------------- C37
\* both searches were answered with a response body
BothReturned == answered # <<>> /\ answered[1].pc = "returned" /\ request.pc = "returned"

\* C37 as stated: with the repository and the catalog unchanged, two combined
\* searches whose queries have equal trimmed, lower-cased forms return the
\* same merged record list.
C37_NormalizedQueriesSameList ==
  (BothReturned /\ Norm(answered[1].q.s) = Norm(request.q.s)) =>
    request.body.recipes = answered[1].body.recipes

\* C37 as amended: with the repository unchanged and the catalog answering
\* both alike, two combined searches whose queries are equal up to the case
\* of ASCII letters return the same merged record list; the internal leg is
\* insensitive to that case, and takes whitespace around the query as part
\* of the text to find.
C37_SameLettersSameList ==
  (BothReturned /\ Lower(answered[1].q.s) = Lower(request.q.s)) =>
    /\ request.internal.val = answered[1].internal.val
    /\ request.body.recipes = answered[1].body.recipes
    /\ request.internal.val =
         SelectSeq(repo.rows, LAMBDA rec : StrIn(Lower(request.q.s), Lower(rec.title)))

\* queries in different letter case, the second search served from the
\* cache, internal and external records in both lists
C37_Witness ==
  /\ BothReturned
  /\ answered[1].q.s # request.q.s
  /\ Lower(answered[1].q.s) = Lower(request.q.s)
  /\ calls[2].info.hit
  /\ Len(request.internal.val) = 2
  /\ Len(request.body.recipes) = 4

\* the queries of the counterexample: equal normal forms, one with a leading
\* blank, and internal legs of different length
C37_BlankMatters ==
  /\ BothReturned
  /\ Norm(answered[1].q.s) = Norm(request.q.s)
  /\ Len(answered[1].internal.val) # Len(request.internal.val)
  /\ calls[1].key = calls[2].key

\* ---------------------------------------------------------------------- C38
\* the two repositories returned the same at the i-th call
SameResult(i) ==
  /\ history[i].ret = history[i].twin_ret
  /\ history[i].list = history[i].twin_list

\* the query of the i-th call has none of the characters LIKE gives a meaning
PlainQuery(i) == \A k \in 1..Len(history[i].query) : history[i].query[k] \notin {"%", "_"}

\* C38: the in-memory and the SQLite repository are interchangeable: started
\* from the same seed data and driven by the same sequence of create, update,
\* get_by_id, get_all and search_by_title calls, they return equal results at
\* every step (same identifiers, same fields, same order), for every query
\* string including ones that contain % or _.
C38_RepositoriesInterchangeable ==
  /\ repo.rows = twin.rows
  /\ \A i \in 1..Len(history) : SameResult(i)

\* what the code does: the two hold the same records in the same order after
\* every call and return equal results at every call whose query has neither
\* % nor _
C38_InterchangeableOnPlainQueries ==
  /\ repo.rows = twin.rows
  /\ repo.next_id = twin.seq + 1
  /\ \A i \in 1..Len(history) : PlainQuery(i) => SameResult(i)

\* every method has been called with equal results: a create, an update of
\* the created record and a search that finds it
C38_EveryMethod ==
  /\ Len(history) = 3
  /\ history[1].op = "create" /\ history[2].op = "update" /\ history[3].op = "search"
  /\ history[2].ret # PyNone /\ history[2].recipe_id = history[1].ret.id.n
  /\ history[3].list # <<>> /\ SameResult(3)

\* ---------------------------------------------------------------------- C39
\* the client gave up on the request of call c
GaveUp(c) == Done(c) /\ calls[c].response = HttpFailure("ReadTimeout")

\* C39: every combined search and every external lookup by identifier is
\* eventually answered, given that the cache-store calls and the repository
\* search return: a catalog request is answered or runs into the client's
\* timeout, and the timeout is handled as a failure of the catalog (an empty
\* result with hit = false and source = api, nothing raised).
C39_EveryRequestAnswered ==
  /\ (request.pc = "gathering") ~> (request.pc \in {"returned", "raised"})
  /\ Started(Lookup) ~> Done(Lookup)
  /\ [](\A c \in Calls :
          GaveUp(c) =>
            /\ calls[c].path = "failure"
            /\ calls[c].exc = "none"
            /\ calls[c].val = (IF calls[c].op = "search" THEN EmptyList ELSE PyNone)
            /\ calls[c].info = CacheInfo(FALSE, "api"))

\* the catalog answered neither request: both ran into the timeout, the
\* search returned the internal matches and the lookup returned nothing
C39_Witness ==
  /\ GaveUp(ExternalLeg) /\ GaveUp(Lookup)
  /\ request.pc = "returned"
  /\ request.body.recipes # <<>>
  /\ calls[Lookup].val = PyNone

====
